---- MODULE Spec2Model ----
(***************************************************************************)
(* Locus file-history engine: the filesystem monitor's backup path         *)
(* (monitor.py), the identity and version tables (database/crud.py,        *)
(* database/models.py), the restore endpoint (main.py) and the             *)
(* content-addressed store with its garbage collector (storage.py).        *)
(*                                                                         *)
(* Paths are tuples of one-character strings so that the prefix and suffix *)
(* tests of the code are computed, not assumed.  A handler that spans      *)
(* several database transactions or file operations is one action per      *)
(* transaction, so that threads interleave where they can in the program.  *)
(***************************************************************************)
EXTENDS Integers, Sequences, FiniteSets, TLC

\* ------------------------------------------------------------------ bounds
MaxRecords == 2
MaxVersions == 2
MaxEvents == 1
MaxUserOps == 3
MaxScans == 1
MaxRestores == 2
MaxClock == 3
MaxPasses == 1
MaxGCTicks == 3
MaxTasks == 3
MaxRenRecords == 3
MaxRenames == 2
MaxSaves == 2
MaxEdits == 1
MaxFaults == 1
MaxReads == 1
MaxDeletes == 1
MaxSyncs == 4
MaxDbOps == 3
MaxFsOps == 1
MaxTenths == 6
MaxPublishes == 3
MaxEventRows == 2
MaxSubs == 2
MaxThreads == 2
MaxCommands == 3
MaxStops == 1

\* ------------------------------------------------------------ path strings
SEP == "/"

Concat(a, b) == a \o b

StartsWith(s, p) == Len(p) <= Len(s) /\ SubSeq(s, 1, Len(p)) = p

EndsWith(s, p) == Len(p) <= Len(s) /\ SubSeq(s, Len(s) - Len(p) + 1, Len(s)) = p

\* s[n:] of Python: the empty string once n reaches the length
DropPrefix(s, n) == IF n >= Len(s) THEN <<>> ELSE SubSeq(s, n + 1, Len(s))

\* os.path.basename: what follows the last separator
Basename(s) ==
  LET seps == {i \in 1..Len(s) : s[i] = SEP}
      IN IF seps = {} THEN s
         ELSE LET last == CHOOSE i \in seps : \A j \in seps : j <= i
              IN DropPrefix(s, last)

\* os.path.join(a, b) on a POSIX platform, two arguments
PathJoin(a, b) ==
  IF StartsWith(b, <<SEP>>) THEN b
  ELSE IF a = <<>> \/ EndsWith(a, <<SEP>>) THEN Concat(a, b)
  ELSE Concat(Concat(a, <<SEP>>), b)

swap_path_prefix(current_path, old_prefix, new_prefix) ==
  LET relative_suffix == DropPrefix(current_path, Len(old_prefix))
  IN IF StartsWith(relative_suffix, <<SEP>>)
     THEN Concat(new_prefix, relative_suffix)
     ELSE PathJoin(new_prefix, relative_suffix)

\* the temporary-file suffixes _backup_file ignores
IsTempName(p) ==
  \/ EndsWith(p, <<".", "t", "m", "p">>)
  \/ EndsWith(p, <<".", "c", "r", "d", "o", "w", "n", "l", "o", "a", "d">>)
  \/ EndsWith(p, <<"~">>)
  \/ EndsWith(p, <<".", "s", "w", "p">>)

\* os.path.isabs
isabs(p) == StartsWith(p, <<SEP>>)

RECURSIVE SplitFrom(_, _, _)
\* the segments of s between separators, from position i, cur being the segment so far
SplitFrom(s, i, cur) ==
  IF i > Len(s) THEN <<cur>>
  ELSE IF s[i] = SEP THEN <<cur>> \o SplitFrom(s, i + 1, <<>>)
  ELSE SplitFrom(s, i + 1, Append(cur, s[i]))

Segments(s) == SplitFrom(s, 1, <<>>)

RECURSIVE Collapse(_, _, _, _)
\* posixpath.normpath's loop over the segments: empty and "." dropped, ".."
\* removing the segment before it (kept at the start of a relative path)
Collapse(segs, i, acc, rooted) ==
  IF i > Len(segs) THEN acc
  ELSE LET c == segs[i]
       IN IF c = <<>> \/ c = <<".">> THEN Collapse(segs, i + 1, acc, rooted)
          ELSE IF c # <<".", ".">> THEN Collapse(segs, i + 1, Append(acc, c), rooted)
          ELSE IF Len(acc) > 0 /\ acc[Len(acc)] # <<".", ".">>
               THEN Collapse(segs, i + 1, SubSeq(acc, 1, Len(acc) - 1), rooted)
          ELSE IF rooted THEN Collapse(segs, i + 1, acc, rooted)
          ELSE Collapse(segs, i + 1, Append(acc, c), rooted)

RECURSIVE JoinSegs(_, _)
JoinSegs(segs, i) ==
  IF i > Len(segs) THEN <<>>
  ELSE IF i = Len(segs) THEN segs[i]
  ELSE Concat(Concat(segs[i], <<SEP>>), JoinSegs(segs, i + 1))

\* posixpath.normpath
normpath(p) ==
  IF p = <<>> THEN <<".">>
  ELSE LET slashes == IF ~StartsWith(p, <<SEP>>) THEN 0
                      ELSE IF StartsWith(p, <<SEP, SEP>>) /\ ~StartsWith(p, <<SEP, SEP, SEP>>) THEN 2
                      ELSE 1
           body == JoinSegs(Collapse(Segments(p), 1, <<>>, slashes > 0), 1)
           lead == IF slashes = 0 THEN <<>> ELSE IF slashes = 1 THEN <<SEP>> ELSE <<SEP, SEP>>
           out == Concat(lead, body)
       IN IF out = <<>> THEN <<".">> ELSE out

\* the working directory of the process
Cwd == <<"/", "w">>

\* os.path.abspath
abspath(p) == normpath(IF isabs(p) THEN p ELSE PathJoin(Cwd, p))

\* _norm_path of monitor.py: normcase is the identity on a POSIX platform
norm_path(p) == abspath(p)

\* ------------------------------------------------------- the watched tree
DirD == <<"/", "d">>
DirE == <<"/", "e">>
PathA == <<"/", "d", "/", "a">>
PathB == <<"/", "d", "/", "b">>
PathC == <<"/", "e", "/", "a">>
Paths == {PathA, PathB, PathC}
Dirs == {DirD, DirE}

NoFile == "nofile"
Contents == {"c1", "c2"}

\* SHA-256 of a content, as the name it gives the object
calculate_file_hash(dsk, p) ==
  IF p \notin DOMAIN dsk \/ dsk[p] = NoFile THEN "none"
  ELSE IF dsk[p] = "c1" THEN "h1" ELSE "h2"

Exists(dsk, p) == p \in DOMAIN dsk /\ dsk[p] # NoFile

Threads == {"watcher", "scanner"}

VARIABLES
  disk,            \* the watched tree: path -> content or NoFile
  file_records,    \* table file_records: id (index) -> current_path
  file_versions,   \* table file_versions, in insertion order
  cas,             \* the top level of the storage root: name -> [mtime, is_file]
  fs_events,       \* events watchdog has queued for the handler
  pc,              \* each thread's position in its handler
  bf,              \* each thread's locals of _backup_file
  outcome,         \* how each thread's last handler call returned
  user_ops,        \* how many changes the user has made to the tree
  scans,           \* how many files the snapshot scanner has taken
  PENDING_RESTORES, \* monitor.PENDING_RESTORES: normalised path -> expiry
  now,             \* the clock time.time() reads, in seconds
  watched_paths,   \* table watched_paths: rows [path, is_active]
  rq,              \* the request thread's position and locals in restore_version
  restores,        \* how many restore requests have been made
  registered,      \* history: normalised path -> the expiry last recorded for it
  backup_tasks,    \* table backup_tasks, in insertion order
  adm,             \* the watcher's position and locals in the admission of a path
  wk,              \* the backup worker's position and the task it holds
  gc,              \* the GC thread's position and locals
  rd,              \* the last update_directory_records call and what it returned
  cs,              \* the storage root's objects, temporaries and chunks, and its writers
  mw,              \* MonitorService: the watches it holds and the calls it has made
  LAST_BACKUP_TS,  \* monitor.LAST_BACKUP_TS: normalised path -> time of its last enqueue
  tenths,          \* the clock the admission reads, in tenths of a second
  bus,             \* event_stream: the subscribers' queues and the publishers at work
  wks,             \* concurrent backup workers: each one's position and task
  file_events      \* table file_events, in insertion order

pipeVars == <<disk, file_records, file_versions, cas, fs_events, pc, bf, outcome, user_ops, scans>>
requestVars == <<watched_paths, rq, restores, registered>>
restoreVars == <<PENDING_RESTORES, now, requestVars>>
queueVars == <<backup_tasks, adm, wk>>
lateVars == <<bus, wks, file_events>>
moreVars == <<cs, mw, LAST_BACKUP_TS, tenths, lateVars>>
auxVars == <<queueVars, gc, rd, moreVars>>
vars == <<pipeVars, restoreVars, auxVars>>

\* ------------------------------------------------ tables (database/crud.py)
RecIds(recs) == DOMAIN recs

\* get_file_record: the id of the row whose current_path is path, or 0
get_file_record(recs, path) ==
  IF \E i \in RecIds(recs) : recs[i] = path
  THEN CHOOSE i \in RecIds(recs) : recs[i] = path /\ \A j \in RecIds(recs) : recs[j] = path => i <= j
  ELSE 0

\* the unique index on file_records.current_path: writing path into row id
\* (0: a new row) is refused when another row holds it
UniqueViolationOff(recs, id, path) == FALSE

UniqueViolation(recs, id, path) ==
  \E j \in RecIds(recs) : j # id /\ recs[j] = path

try_recover_file_record_any_name(recs, vers, dsk, path, h) ==
  LET c == {k \in DOMAIN vers :
              /\ vers[k].file_hash = h
              /\ vers[k].file_record_id \in RecIds(recs)
              /\ ~Exists(dsk, recs[vers[k].file_record_id])}
  IN IF c = {} THEN 0
     ELSE vers[CHOOSE k \in c : \A j \in c : k <= j].file_record_id

\* _try_recover_file_record: the record of the first version (in table order)
\* with this hash whose record has the same file name and a path that is gone
RecoverCandidates(recs, vers, dsk, path, h) ==
  {k \in DOMAIN vers :
     /\ vers[k].file_hash = h
     /\ vers[k].file_record_id \in RecIds(recs)
     /\ Basename(recs[vers[k].file_record_id]) = Basename(path)
     /\ ~Exists(dsk, recs[vers[k].file_record_id])}

try_recover_file_record(recs, vers, dsk, path, h) ==
  LET c == RecoverCandidates(recs, vers, dsk, path, h)
  IN IF c = {} THEN 0
     ELSE vers[CHOOSE k \in c : \A j \in c : k <= j].file_record_id

\* the rows get_file_versions returns for a path: those of the record at the
\* path, or without one those whose original_path is the path
VersionRows(recs, vers, path) ==
  LET r == get_file_record(recs, path)
  IN IF r # 0
     THEN {k \in DOMAIN vers : vers[k].file_record_id = r}
     ELSE {k \in DOMAIN vers : vers[k].original_path = path}

\* the rows ORDER BY version_number DESC may put first
FirstRows(vers, rows) ==
  {k \in rows : \A j \in rows : vers[j].version_number <= vers[k].version_number}

\* update_directory_records: the rows rewritten, and the table after the UPDATEs
\* (issued in id order, each checked against the unique index)
DirMatchesAnyPrefix(recs, old_dir) == {i \in RecIds(recs) : StartsWith(recs[i], old_dir)}

DirMatches(recs, old_dir) ==
  LET norm_old_dir == IF EndsWith(old_dir, <<SEP>>) THEN old_dir ELSE Concat(old_dir, <<SEP>>)
  IN {i \in RecIds(recs) : StartsWith(recs[i], old_dir) /\ StartsWith(recs[i], norm_old_dir)}

RECURSIVE ApplyDirUpdates(_, _, _, _, _)
\* the table after the UPDATEs from row i on; ok is FALSE when one of them
\* raised IntegrityError
ApplyDirUpdates(recs, m, old_dir, new_dir, i) ==
  IF i > Len(recs) THEN [ok |-> TRUE, recs |-> recs]
  ELSE IF i \notin m THEN ApplyDirUpdates(recs, m, old_dir, new_dir, i + 1)
  ELSE LET np == swap_path_prefix(recs[i], old_dir, new_dir)
       IN IF UniqueViolation(recs, i, np) THEN [ok |-> FALSE, recs |-> recs]
          ELSE ApplyDirUpdates([recs EXCEPT ![i] = np], m, old_dir, new_dir, i + 1)

\* a commit per row instead of one for the call: the rows rewritten before the
\* failing UPDATE stay rewritten
update_directory_records_per_row(recs, old_dir, new_dir) ==
  LET m == DirMatches(recs, old_dir)
      r == ApplyDirUpdates(recs, m, old_dir, new_dir, 1)
  IN [ok |-> r.ok, recs |-> r.recs, count |-> Cardinality(m)]

\* ok: the commit went through; recs: the table it left; count: the value returned
update_directory_records(recs, old_dir, new_dir) ==
  LET m == DirMatches(recs, old_dir)
      r == ApplyDirUpdates(recs, m, old_dir, new_dir, 1)
  IN [ok |-> r.ok, recs |-> IF r.ok THEN r.recs ELSE recs, count |-> Cardinality(m)]

\* the idle threads and the empty result of the parts a specification leaves out
NoAdmission ==
  [pc |-> "idle", path |-> <<>>, result |-> "none", at |-> 0, before |-> 0,
   inflight |-> FALSE, made |-> "none"]
NoWork == [pc |-> "idle", task |-> 0, error |-> "None"]
NoPublish ==
  [pc |-> "idle", event |-> 0, size |-> 0, visited |-> {}, queue |-> 0,
   subs |-> {}, delivered |-> {}, dropped |-> {}]
NoBus ==
  [SUBSCRIBERS |-> {}, queues |-> <<>>, got |-> <<>>, published |-> 0,
   pub |-> [t \in {"t1", "t2"} |-> NoPublish], raised |-> FALSE,
   done |-> [NoPublish EXCEPT !.pc = "none"], left |-> {}]
Workers == {"w1", "w2"}
NoWorkers ==
  [pc |-> [w \in Workers |-> "idle"], task |-> [w \in Workers |-> 0],
   attempts |-> [w \in Workers |-> 0], marked |-> {}, ran |-> {}]
NoGC ==
  [pc |-> "idle", passes |-> 0, active |-> {}, at |-> 0, before |-> <<>>, todo |-> {},
   deleted |-> {}, failed |-> {}]
NoRun ==
  [n |-> 0, db |-> {}, dirs |-> {}, active_watches |-> {},
   root_watches |-> {}, sched |-> 0, unsched |-> 0, raised |-> FALSE]
\* FileMonitorService's thread, flag and queue (monitor.py 234-244): no thread
\* has been started.  th is the state of each thread start() has made, observer
\* the thread whose Observer self.observer refers to (0 for None); live, touched,
\* handled, halted and clear are history: the Observers started and not stopped,
\* the <<thread, Observer>> pairs of the schedule and unschedule calls, the
\* commands dispatched and by whom, the number of the stop command queued for
\* each thread, and the commands queued while no stop was under way
ThreadIds == 1..MaxThreads
NoCommand == [cmd |-> "none", n |-> 0]
NoService ==
  [running |-> FALSE, monitor_thread |-> 0, observer |-> 0,
   th |-> [t \in ThreadIds |-> [pc |-> "none", cmd |-> NoCommand]],
   cmd_queue |-> <<>>, puts |-> 0, stops |-> 0, join |-> 0,
   live |-> {}, touched |-> {}, handled |-> <<>>,
   halted |-> [t \in ThreadIds |-> 0], clear |-> {}]
NoWatches ==
  [db |-> {}, dirs |-> {}, active_watches |-> <<>>, root_watches |-> {},
   observer |-> {}, sched |-> 0, unsched |-> 0, raised |-> FALSE,
   calls |-> 0, dbops |-> 0, fsops |-> 0, prev |-> NoRun, last |-> NoRun,
   pending |-> {}, cmd_queue |-> <<>>,
   before |-> [db |-> {}, file_records |-> <<>>, file_events |-> <<>>],
   svc |-> NoService]
NoCall ==
  [calls |-> 0, old_dir |-> <<>>, new_dir |-> <<>>, before |-> <<>>, count |-> 0, ok |-> TRUE,
   events |-> <<>>]

\* ------------------------------------------- _backup_file (monitor.py 40-96)
NoLocals ==
  [path |-> <<>>, expires_at |-> 0 - 1, seen |-> 0 - 1,
   hash |-> "none", rec |-> 0, next |-> 0, meta |-> "none"]

Return(t, o) ==
  /\ pc' = [pc EXCEPT ![t] = "idle"]
  /\ bf' = [bf EXCEPT ![t] = NoLocals]
  /\ outcome' = [outcome EXCEPT ![t] = o]

Goto(t, label, locals) ==
  /\ pc' = [pc EXCEPT ![t] = label]
  /\ bf' = [bf EXCEPT ![t] = locals]
  /\ UNCHANGED outcome

\* the value of PENDING_RESTORES.get(key) when the key is absent
None == 0 - 1

\* line 44: time.time() <= expires_at
WindowOpen(clock, expires_at) == clock <= expires_at

\* lines 51-52: a temporary name is not backed up
AfterSuppression(t) ==
  IF IsTempName(bf[t].path)
  THEN Return(t, "temp")
  ELSE Goto(t, "hash", bf[t])

\* lines 41-42: expires_at = PENDING_RESTORES.get(_norm_path(src_path)); seen is
\* history: the expiry register_restore_start last recorded for the key
BF_Check(t) ==
  /\ pc[t] = "check"
  /\ UNCHANGED <<auxVars, scans, disk, file_records, file_versions, cas, fs_events, user_ops, restoreVars>>
  /\ LET key == norm_path(bf[t].path)
     IN Goto(t, "test",
             [bf[t] EXCEPT !.expires_at =
                             IF key \in DOMAIN PENDING_RESTORES THEN PENDING_RESTORES[key] ELSE None,
                           !.seen = IF key \in DOMAIN registered THEN registered[key] ELSE None])

\* lines 43-48: inside the window the event is dropped
BF_Test(t) ==
  /\ pc[t] = "test"
  /\ UNCHANGED <<auxVars, scans, disk, file_records, file_versions, cas, fs_events, user_ops, restoreVars>>
  /\ IF bf[t].expires_at = None
     THEN AfterSuppression(t)
     ELSE IF WindowOpen(now, bf[t].expires_at)
          THEN Return(t, "suppressed")
          ELSE Goto(t, "pop", bf[t])

\* line 49: PENDING_RESTORES.pop(normalized_src_path, None), then lines 51-52
BF_Pop(t) ==
  /\ pc[t] = "pop"
  /\ UNCHANGED <<auxVars, scans, disk, file_records, file_versions, cas, fs_events, user_ops, now, requestVars>>
  /\ PENDING_RESTORES' =
       [k \in DOMAIN PENDING_RESTORES \ {norm_path(bf[t].path)} |-> PENDING_RESTORES[k]]
  /\ AfterSuppression(t)

\* lines 55-57: storage.calculate_file_hash
BF_Hash(t) ==
  /\ pc[t] = "hash"
  /\ UNCHANGED <<auxVars, scans, disk, file_records, file_versions, cas, fs_events, user_ops, restoreVars>>
  /\ IF ~Exists(disk, bf[t].path)
     THEN Return(t, "gone")
     ELSE Goto(t, "lookup", [bf[t] EXCEPT !.hash = calculate_file_hash(disk, bf[t].path)])

\* crud.create_file_record, lines 179-181: the record of the path, if any
BF_Lookup(t) ==
  /\ pc[t] = "lookup"
  /\ UNCHANGED <<auxVars, scans, disk, file_records, file_versions, cas, fs_events, user_ops, restoreVars>>
  /\ LET existing == get_file_record(file_records, bf[t].path)
     IN IF existing # 0
        THEN Goto(t, "versions", [bf[t] EXCEPT !.rec = existing])
        ELSE Goto(t, "create", bf[t])

\* crud.create_file_record, lines 184-194: identity recovery, else a new row;
\* an IntegrityError of the commit is caught by _backup_file (line 93)
BF_Create(t) ==
  /\ pc[t] = "create"
  /\ UNCHANGED <<auxVars, scans, disk, file_versions, cas, fs_events, user_ops, restoreVars>>
  /\ LET recovered == try_recover_file_record(file_records, file_versions, disk,
                                              bf[t].path, bf[t].hash)
     IN IF recovered # 0
        THEN IF UniqueViolation(file_records, recovered, bf[t].path)
             THEN Return(t, "error") /\ UNCHANGED file_records
             ELSE /\ file_records' = [file_records EXCEPT ![recovered] = bf[t].path]
                  /\ Goto(t, "versions", [bf[t] EXCEPT !.rec = recovered])
        ELSE IF UniqueViolation(file_records, 0, bf[t].path)
             THEN Return(t, "error") /\ UNCHANGED file_records
             ELSE /\ Len(file_records) < MaxRecords
                  /\ file_records' = Append(file_records, bf[t].path)
                  /\ Goto(t, "versions", [bf[t] EXCEPT !.rec = Len(file_records) + 1])

DedupHitOff(first_hash, current_hash) == FALSE

\* the dedup test of lines 74-78 on the row the query put first
DedupHit(first_hash, current_hash) == first_hash = current_hash

\* lines 70-78: crud.get_file_versions, next_version, the dedup test
BF_Versions(t) ==
  /\ pc[t] = "versions"
  /\ UNCHANGED <<auxVars, scans, disk, file_records, file_versions, cas, fs_events, user_ops, restoreVars>>
  /\ LET rows == VersionRows(file_records, file_versions, bf[t].path)
         next_version == Cardinality(rows) + 1
     IN IF rows = {}
        THEN Goto(t, "save", [bf[t] EXCEPT !.next = next_version])
        ELSE \E k \in FirstRows(file_versions, rows) :
               IF DedupHit(file_versions[k].file_hash, bf[t].hash)
               THEN Return(t, "dedup")
               ELSE Goto(t, "save", [bf[t] EXCEPT !.next = next_version])

\* the name of the object storing the content with hash h
ObjectName(h) == <<h, ".gz">>

\* STORAGE_ROOT and CHUNK_DIR of storage.py, and str(STORAGE_ROOT / name)
STORAGE_ROOT == <<".locus_storage", SEP>>
CHUNK_DIR == <<"chunks">>
StoragePath(name) == Concat(STORAGE_ROOT, name)

\* the storage root after init_storage: the chunk directory and nothing else
EmptyStore == (CHUNK_DIR :> [mtime |-> 0, is_file |-> FALSE])

\* storage.save_file_version of a small file: an object of that name is a
\* dedup hit and is left as it is, else the object is written
save_file_version(objects, clock, h) ==
  IF ObjectName(h) \in DOMAIN objects
  THEN objects
  ELSE (ObjectName(h) :> [mtime |-> clock, is_file |-> TRUE]) @@ objects

\* line 80: storage.save_file_version(src_path), which hashes the file again
BF_Save(t) ==
  /\ pc[t] = "save"
  /\ UNCHANGED <<auxVars, scans, disk, file_records, file_versions, fs_events, user_ops, restoreVars>>
  /\ IF ~Exists(disk, bf[t].path)
     THEN Return(t, "nometa") /\ UNCHANGED cas
     ELSE /\ cas' = save_file_version(cas, now, calculate_file_hash(disk, bf[t].path))
          /\ Goto(t, "insert", [bf[t] EXCEPT !.meta = calculate_file_hash(disk, bf[t].path)])

\* lines 82-90: crud.create_file_version
BF_Insert(t) ==
  /\ pc[t] = "insert"
  /\ Len(file_versions) < MaxVersions
  /\ UNCHANGED <<auxVars, scans, disk, file_records, cas, fs_events, user_ops, restoreVars>>
  /\ file_versions' = Append(file_versions,
        [file_record_id |-> bf[t].rec, original_path |-> bf[t].path,
         storage_path |-> StoragePath(ObjectName(bf[t].meta)), version_number |-> bf[t].next,
         file_hash |-> bf[t].meta])
  /\ Return(t, "saved")

BackupStep(t) ==
  \/ BF_Check(t)
  \/ BF_Test(t)
  \/ BF_Hash(t)
  \/ BF_Lookup(t)
  \/ BF_Create(t)
  \/ BF_Versions(t)
  \/ BF_Save(t)
  \/ BF_Insert(t)

\* ------------------------------------ LocusEventHandler (monitor.py 118-165)
Event(type, src, dest) == [type |-> type, src |-> src, dest |-> dest]

HandlerTakes(type) ==
  /\ pc["watcher"] = "idle"
  /\ fs_events # <<>>
  /\ Head(fs_events).type = type
  /\ fs_events' = Tail(fs_events)
  /\ UNCHANGED user_ops

\* on_created, on_modified: _backup_file(event.src_path)
OnCreatedOrModified ==
  /\ \/ HandlerTakes("created")
     \/ HandlerTakes("modified")
  /\ Goto("watcher", "check", [NoLocals EXCEPT !.path = Head(fs_events).src])
  /\ UNCHANGED <<auxVars, scans, disk, file_records, file_versions, cas, restoreVars>>

\* crud.update_file_record_path: ok is FALSE when the commit raised IntegrityError
update_file_record_path(recs, old_path, new_path) ==
  LET r == get_file_record(recs, old_path)
  IN IF r = 0 THEN [ok |-> TRUE, rec |-> 0, recs |-> recs]
     ELSE IF UniqueViolation(recs, r, new_path) THEN [ok |-> FALSE, rec |-> r, recs |-> recs]
     ELSE [ok |-> TRUE, rec |-> r, recs |-> [recs EXCEPT ![r] = new_path]]

\* on_moved of a file: the record follows the file, then _backup_file(dest_path)
OnMovedFile ==
  /\ HandlerTakes("moved")
  /\ LET e == Head(fs_events)
         u == update_file_record_path(file_records, e.src, e.dest)
     IN /\ file_records' = u.recs
        /\ pc' = [pc EXCEPT !["watcher"] = "check"]
        /\ bf' = [bf EXCEPT !["watcher"] = [NoLocals EXCEPT !.path = e.dest]]
        /\ outcome' = [outcome EXCEPT !["watcher"] =
                         IF ~u.ok THEN "move_conflict"
                         ELSE IF u.rec = 0 THEN "move_norecord" ELSE "moved"]
  /\ UNCHANGED <<auxVars, scans, disk, file_versions, cas, restoreVars>>

\* on_moved of a directory: crud.update_directory_records
OnMovedDir ==
  /\ HandlerTakes("moved_dir")
  /\ LET e == Head(fs_events)
         u == update_directory_records(file_records, e.src, e.dest)
     IN /\ file_records' = u.recs
        /\ outcome' = [outcome EXCEPT !["watcher"] =
                         IF u.ok THEN "dir_moved" ELSE "dir_conflict"]
  /\ UNCHANGED <<auxVars, scans, disk, file_versions, cas, pc, bf, restoreVars>>

\* _process_snapshot_file (main.py 305-311): the scanner backs a file of the
\* walked root up through _process_backup
ScanFile(p) ==
  /\ pc["scanner"] = "idle"
  /\ Exists(disk, p)
  /\ scans < MaxScans
  /\ scans' = scans + 1
  /\ Goto("scanner", "hash", [NoLocals EXCEPT !.path = p])
  /\ UNCHANGED <<auxVars, disk, file_records, file_versions, cas, fs_events, user_ops, restoreVars>>

\* ------------------------------------------- exclusions (storage.py 21-94)
\* two of the built-in names, and one the user has added
DEFAULT_EXCLUDED_DIRS == {<<"node_modules">>, <<".git">>}
CUSTOM_EXCLUDED_DIRS == {<<"out">>}

get_all_excluded_dirs == DEFAULT_EXCLUDED_DIRS \cup CUSTOM_EXCLUDED_DIRS

\* storage.is_excluded_path: some part of the path is an excluded name
is_excluded_path(path) ==
  \E i \in 1..Len(Segments(path)) : Segments(path)[i] \in get_all_excluded_dirs

\* files of the first root: under an excluded directory, under a directory
\* whose name only begins with an excluded name, and with a temporary suffix
PathN == <<"/", "d", "/", "node_modules", "/", "a">>
PathS == <<"/", "d", "/", "node_modules", "x", "/", "a">>
PathT == <<"/", "d", "/", "a", ".", "t", "m", "p">>
FilterPaths == {PathA, PathN, PathS, PathT}

\* ---------------------------------------------- the user, on the watched tree
IsUnder(p, dir) == StartsWith(p, Concat(dir, <<SEP>>))

Emit(e) ==
  /\ Len(fs_events) < MaxEvents
  /\ user_ops < MaxUserOps
  /\ fs_events' = Append(fs_events, e)
  /\ user_ops' = user_ops + 1

UserWrite(p, c) ==
  /\ Emit(Event(IF Exists(disk, p) THEN "modified" ELSE "created", p, <<>>))
  /\ disk' = [disk EXCEPT ![p] = c]
  /\ UNCHANGED <<auxVars, scans, file_records, file_versions, cas, pc, bf, outcome, restoreVars>>

\* the user writes a file that may be new to the tree
FilterWrite(p, c) ==
  /\ Emit(Event(IF Exists(disk, p) THEN "modified" ELSE "created", p, <<>>))
  /\ disk' = [q \in DOMAIN disk \cup {p} |-> IF q = p THEN c ELSE disk[q]]
  /\ UNCHANGED <<auxVars, scans, file_records, file_versions, cas, pc, bf, outcome, restoreVars>>

UserMove(src, dst) ==
  /\ src # dst
  /\ Exists(disk, src)
  /\ Emit(Event("moved", src, dst))
  /\ disk' = [disk EXCEPT ![dst] = disk[src], ![src] = NoFile]
  /\ UNCHANGED <<auxVars, scans, file_records, file_versions, cas, pc, bf, outcome, restoreVars>>

UserMoveDir(old, new) ==
  /\ old # new
  /\ \E p \in Paths : IsUnder(p, old) /\ Exists(disk, p)
  /\ \A p \in Paths : IsUnder(p, new) => ~Exists(disk, p)
  /\ \A p \in Paths : IsUnder(p, old) /\ Exists(disk, p) => swap_path_prefix(p, old, new) \in Paths
  /\ Emit(Event("moved_dir", old, new))
  /\ disk' = [p \in Paths |->
               IF \E q \in Paths : IsUnder(q, old) /\ Exists(disk, q) /\ swap_path_prefix(q, old, new) = p
               THEN disk[CHOOSE q \in Paths : IsUnder(q, old) /\ swap_path_prefix(q, old, new) = p]
               ELSE NoFile]
  /\ UNCHANGED <<auxVars, scans, file_records, file_versions, cas, pc, bf, outcome, restoreVars>>

\* ------------------------------------------ restore_version (main.py 607-668)
RESTORE_WINDOW == 2

NoRequest == [pc |-> "idle", version_id |-> 0, target |-> <<>>, status |-> 0]

\* the content a stored object decompresses to
ContentOf(h) == IF h = "h1" THEN "c1" ELSE "c2"

\* a symbolic link of the file system: /l is a link to the first watched root
LinkDir == <<"/", "l">>
PathL == <<"/", "l", "/", "a">>

\* os.path.realpath: the absolute path with the link followed
realpath(p) ==
  LET q == abspath(p)
  IN IF q = LinkDir THEN DirD
     ELSE IF StartsWith(q, Concat(LinkDir, <<SEP>>)) THEN Concat(DirD, DropPrefix(q, Len(LinkDir)))
     ELSE q

\* _normalize_path: normcase(abspath(realpath(path)))
normalize_path(p) == abspath(realpath(p))

RECURSIVE CommonLen(_, _, _)
\* the number of leading segments two absolute paths share
CommonLen(a, b, i) ==
  IF i > Len(a) \/ i > Len(b) \/ a[i] # b[i] THEN i - 1 ELSE CommonLen(a, b, i + 1)

\* os.path.commonpath of two absolute normalised paths
commonpath(a, b) ==
  LET sa == Segments(a)
      sb == Segments(b)
      n == CommonLen(sa, sb, 1)
  IN IF n = 0 THEN <<SEP>> ELSE JoinSegs(SubSeq(sa, 1, n), 1)

get_watched_paths_all(rows) == {rows[i].path : i \in DOMAIN rows}

\* crud.get_watched_paths: the rows with is_active
get_watched_paths(rows) == {rows[i].path : i \in {j \in DOMAIN rows : rows[j].is_active}}

is_within_watched_paths(target_path, watched) ==
  \E w \in watched :
    w # <<>> /\ commonpath(normalize_path(target_path), normalize_path(w)) = normalize_path(w)

\* register_restore_start (monitor.py 23-26)
register_restore_start(pending, clock, file_path) ==
  [k \in DOMAIN pending \cup {norm_path(file_path)} |->
     IF k = norm_path(file_path) THEN clock + RESTORE_WINDOW ELSE pending[k]]

\* restore_version, lines 631-655: the checks, then register_restore_start
R_Start(v, dest) ==
  /\ rq.pc = "idle"
  /\ restores < MaxRestores
  /\ restores' = restores + 1
  /\ UNCHANGED <<auxVars, pipeVars, now, watched_paths>>
  /\ IF v \notin DOMAIN file_versions
     THEN /\ rq' = [NoRequest EXCEPT !.status = 404]
          /\ UNCHANGED <<PENDING_RESTORES, registered>>
     ELSE LET target_path == IF dest # <<>> THEN dest ELSE file_versions[v].original_path
              answer(code) == [NoRequest EXCEPT !.status = code]
          IN IF target_path = <<>> \/ ~isabs(target_path)
             THEN rq' = answer(400) /\ UNCHANGED <<PENDING_RESTORES, registered>>
             ELSE IF ~is_within_watched_paths(target_path, get_watched_paths(watched_paths))
             THEN rq' = answer(403) /\ UNCHANGED <<PENDING_RESTORES, registered>>
             ELSE /\ rq' = [pc |-> "restore", version_id |-> v, target |-> target_path,
                            status |-> 0]
                  /\ PENDING_RESTORES' = register_restore_start(PENDING_RESTORES, now, target_path)
                  /\ registered' = register_restore_start(registered, now, target_path)

\* storage.restore_file_version (storage.py 402-437): False when the object is
\* missing or the destination cannot be opened for writing
CanRestore(objects, storage_path, dest_path) ==
  /\ Basename(storage_path) \in DOMAIN objects
  /\ realpath(dest_path) \in Paths

\* restore_version, lines 658-668
R_Restore ==
  /\ rq.pc = "restore"
  /\ UNCHANGED <<auxVars, file_records, file_versions, cas, pc, bf, outcome, user_ops, scans,
                 PENDING_RESTORES, now, watched_paths, restores, registered>>
  /\ LET version == file_versions[rq.version_id]
         dst == realpath(rq.target)
     IN IF CanRestore(cas, version.storage_path, rq.target)
        THEN /\ Len(fs_events) < MaxEvents
             /\ disk' = [disk EXCEPT ![dst] = ContentOf(Basename(version.storage_path)[1])]
             /\ fs_events' = Append(fs_events,
                   Event(IF Exists(disk, dst) THEN "modified" ELSE "created", dst, <<>>))
             /\ rq' = [NoRequest EXCEPT !.status = 200]
        ELSE /\ rq' = [NoRequest EXCEPT !.status = 500]
             /\ UNCHANGED <<disk, fs_events>>

\* the clock advances by a second
Tick ==
  /\ now < MaxClock
  /\ now' = now + 1
  /\ UNCHANGED <<auxVars, pipeVars, PENDING_RESTORES, requestVars>>

\* the destinations a request may name: none (the version's original path), a
\* file of the second root, the same through "..", a relative path, a root
Dests ==
  { <<>>, PathC, <<"d", "/", "a">>,
    <<"/", "d", "/", ".", ".", "/", "e", "/", "a">>,
    DirD }

\* --------------------- garbage collection (storage.py 450-510, main.py 94-121)
GC_GRACE_PERIOD_SECONDS == 3600

is_within_grace_period_never(mtime, at) == FALSE

\* _is_within_grace_period, with the file's st_mtime and the time of line 478
is_within_grace_period(mtime, at) == at - mtime < GC_GRACE_PERIOD_SECONDS

\* crud.get_all_storage_paths, and the basenames background_gc_task makes of them
get_all_storage_paths(vers) == {vers[k].storage_path : k \in DOMAIN vers}
active_filenames(vers) == {Basename(p) : p \in get_all_storage_paths(vers)}

\* the names the top level of the storage root can hold
StoreNames == {ObjectName("h1"), ObjectName("h2"), CHUNK_DIR}

\* background_gc_task, lines 106-112: the active set is read from the database
G_Read ==
  /\ gc.pc \in {"idle", "done"}
  /\ gc.passes < MaxPasses
  /\ gc' = [NoGC EXCEPT !.pc = "start", !.passes = gc.passes + 1,
                        !.active = active_filenames(file_versions)]
  /\ UNCHANGED <<moreVars, pipeVars, restoreVars, queueVars, rd>>

\* run_garbage_collection, lines 475-480: the time is read and the top level of
\* the storage root is listed; before is history, the root at that moment
G_Start ==
  /\ gc.pc = "start"
  /\ gc' = [gc EXCEPT !.pc = "scan", !.at = now, !.before = cas, !.todo = DOMAIN cas]
  /\ UNCHANGED <<moreVars, pipeVars, restoreVars, queueVars, rd>>

\* lines 481-506 for one entry of the listing; io_ok is whether stat and unlink
\* went through (a failure of either is logged and leaves the file)
G_Visit(f, io_ok) ==
  /\ gc.pc = "scan"
  /\ f \in gc.todo
  /\ UNCHANGED <<moreVars, disk, file_records, file_versions, fs_events, pc, bf, outcome, user_ops,
                 scans, restoreVars, queueVars, rd>>
  /\ LET skip == gc' = [gc EXCEPT !.todo = gc.todo \ {f}] /\ UNCHANGED cas
     IN IF f \notin DOMAIN cas \/ ~cas[f].is_file
        THEN io_ok /\ skip
        ELSE IF ~io_ok
        THEN gc' = [gc EXCEPT !.todo = gc.todo \ {f}, !.failed = gc.failed \cup {f}]
             /\ UNCHANGED cas
        ELSE IF is_within_grace_period(cas[f].mtime, gc.at) \/ f \in gc.active
        THEN skip
        ELSE /\ cas' = [g \in DOMAIN cas \ {f} |-> cas[g]]
             /\ gc' = [gc EXCEPT !.todo = gc.todo \ {f}, !.deleted = gc.deleted \cup {f}]

\* lines 508-510: the pass is over
G_Finish ==
  /\ gc.pc = "scan"
  /\ gc.todo = {}
  /\ gc' = [gc EXCEPT !.pc = "done"]
  /\ UNCHANGED <<moreVars, pipeVars, restoreVars, queueVars, rd>>

\* the clock advances by half a grace period; a backup that has stored its
\* object inserts the version row, and a pass that has read the active set
\* ends, before that much time has passed
GC_Tick ==
  /\ now < MaxGCTicks * (GC_GRACE_PERIOD_SECONDS \div 2)
  /\ \A t \in Threads : pc[t] # "insert"
  /\ gc.pc \in {"idle", "done"}
  /\ now' = now + GC_GRACE_PERIOD_SECONDS \div 2
  /\ UNCHANGED <<pipeVars, PENDING_RESTORES, requestVars, auxVars>>

\* _backup_file, lines 82-94: the commit of the new row raises (the database is
\* locked by another thread's write) and line 93 catches it
BF_InsertFails(t) ==
  /\ pc[t] = "insert"
  /\ UNCHANGED <<auxVars, scans, disk, file_records, file_versions, cas, fs_events,
                 user_ops, restoreVars>>
  /\ Return(t, "error")

\* ------------------------------ the backup queue (crud.py 66-118, spec 4.5)
InFlight == {"pending", "processing"}

\* the clock of the queue counts tenths of a second
BACKUP_DEBOUNCE_SECONDS == 3

\* the same file under a name that is not normalised
PathAA == <<"/", "d", "/", "/", "a">>
QueuePaths == {PathA, PathB, PathAA}
Errors == {"file is gone", "boom"}

\* crud.enqueue_backup_task; created_at is the column's default, the time of
\* the insert
enqueue_backup_task(tasks, src_path, clock) ==
  Append(tasks, [src_path |-> src_path, status |-> "pending", attempts |-> 0,
                 created_at |-> clock, last_error |-> "None"])

has_pending_backup_task_pending_only(tasks, src_path) ==
  \E k \in DOMAIN tasks : tasks[k].src_path = src_path /\ tasks[k].status = "pending"

\* crud.has_pending_backup_task
has_pending_backup_task(tasks, src_path) ==
  \E k \in DOMAIN tasks : tasks[k].src_path = src_path /\ tasks[k].status \in InFlight

\* a queue that retries: the oldest row that is pending or failed
get_next_backup_task_with_retry(tasks) ==
  LET open == {k \in DOMAIN tasks : tasks[k].status \in {"pending", "failed"}}
  IN IF open = {} THEN 0 ELSE CHOOSE k \in open : \A j \in open : k <= j

\* crud.get_next_backup_task: the oldest pending row, 0 for None
get_next_backup_task(tasks) ==
  LET pending == {k \in DOMAIN tasks : tasks[k].status = "pending"}
  IN IF pending = {} THEN 0 ELSE CHOOSE k \in pending : \A j \in pending : k <= j

mark_backup_task_processing_keeps_attempts(tasks, k) ==
  [tasks EXCEPT ![k].status = "processing"]

\* crud.mark_backup_task_processing / _done / _failed
mark_backup_task_processing(tasks, k) ==
  [tasks EXCEPT ![k].status = "processing", ![k].attempts = tasks[k].attempts + 1]
mark_backup_task_done(tasks, k) == [tasks EXCEPT ![k].status = "done"]
mark_backup_task_failed(tasks, k, error) ==
  [tasks EXCEPT ![k].status = "failed", ![k].last_error = error]

debounce_hit_half_window(last_ts, key, clock) ==
  key \in DOMAIN last_ts /\ 2 * (clock - last_ts[key]) < BACKUP_DEBOUNCE_SECONDS

\* test (iv): a successful enqueue for the normalised path within the window
debounce_hit(last_ts, key, clock) ==
  key \in DOMAIN last_ts /\ clock - last_ts[key] < BACKUP_DEBOUNCE_SECONDS

\* LAST_BACKUP_TS[key] = clock
Stamp(last_ts, key, clock) ==
  [k \in DOMAIN last_ts \cup {key} |-> IF k = key THEN clock ELSE last_ts[k]]

\* admission, in the watcher thread (spec 4.5): _backup_file is called for a path
\* that passed the suffix, exclusion and suppression tests; test (iv) rejects it
\* inside the debounce window.  The locals at, before and inflight keep the time
\* of the attempt and the table it found.
A_Event(p) ==
  /\ adm.pc = "idle"
  /\ Len(backup_tasks) < MaxTasks
  /\ LET attempt == [NoAdmission EXCEPT !.path = p, !.at = tenths,
                                        !.before = Len(backup_tasks),
                                        !.inflight = has_pending_backup_task(backup_tasks, p)]
     IN adm' = IF debounce_hit(LAST_BACKUP_TS, norm_path(p), tenths)
               THEN [attempt EXCEPT !.result = "debounced"]
               ELSE [attempt EXCEPT !.pc = "check"]
  /\ UNCHANGED <<moreVars, pipeVars, restoreVars, backup_tasks, wk, gc, rd>>

\* test (v): a task in flight for the path rejects the candidate
A_Check ==
  /\ adm.pc = "check"
  /\ adm' = IF has_pending_backup_task(backup_tasks, adm.path)
            THEN [adm EXCEPT !.pc = "idle", !.result = "rejected"]
            ELSE [adm EXCEPT !.pc = "enqueue"]
  /\ UNCHANGED <<moreVars, pipeVars, restoreVars, backup_tasks, wk, gc, rd>>

\* otherwise the task is appended, in a commit of its own, and the time of the
\* enqueue is kept for the normalised path
A_Enqueue ==
  /\ adm.pc = "enqueue"
  /\ backup_tasks' = enqueue_backup_task(backup_tasks, adm.path, tenths)
  /\ LAST_BACKUP_TS' = Stamp(LAST_BACKUP_TS, norm_path(adm.path), tenths)
  /\ adm' = [adm EXCEPT !.pc = "idle", !.result = "enqueued",
                        !.made = backup_tasks'[Len(backup_tasks')].status]
  /\ UNCHANGED <<cs, mw, tenths, lateVars, pipeVars, restoreVars, wk, gc, rd>>

\* a tenth of a second passes
Q_Tick ==
  /\ tenths < MaxTenths
  /\ tenths' = tenths + 1
  /\ UNCHANGED <<cs, mw, LAST_BACKUP_TS, lateVars, pipeVars, restoreVars, queueVars, gc, rd>>

\* the worker, step 1: pick the oldest pending task
W_Take ==
  /\ wk.pc = "idle"
  /\ get_next_backup_task(backup_tasks) # 0
  /\ wk' = [wk EXCEPT !.pc = "mark", !.task = get_next_backup_task(backup_tasks)]
  /\ UNCHANGED <<moreVars, pipeVars, restoreVars, backup_tasks, adm, gc, rd>>

\* step 2: mark it processing
W_Mark ==
  /\ wk.pc = "mark"
  /\ backup_tasks' = mark_backup_task_processing(backup_tasks, wk.task)
  /\ wk' = [wk EXCEPT !.pc = "run"]
  /\ UNCHANGED <<moreVars, pipeVars, restoreVars, adm, gc, rd>>

\* steps 3-6 ended without an exception: mark it done
W_Done ==
  /\ wk.pc = "run"
  /\ backup_tasks' = mark_backup_task_done(backup_tasks, wk.task)
  /\ wk' = [wk EXCEPT !.pc = "idle", !.task = 0]
  /\ UNCHANGED <<moreVars, pipeVars, restoreVars, adm, gc, rd>>

\* steps 3 and 7: the file is gone, or an exception: mark it failed with the error
W_Failed(error) ==
  /\ wk.pc = "run"
  /\ backup_tasks' = mark_backup_task_failed(backup_tasks, wk.task, error)
  /\ wk' = [pc |-> "idle", task |-> 0, error |-> error]
  /\ UNCHANGED <<moreVars, pipeVars, restoreVars, adm, gc, rd>>

\* ------------------------- several workers on one queue (spec 5, crud 86-101)
\* Each worker has a session of its own: the row get_next_backup_task returned
\* is the worker's copy, and mark_backup_task_processing writes the status and
\* the copy's attempts + 1 back.  marked and ran are history: who marked which
\* task, and who ran its backup.
poolRest == <<cs, mw, LAST_BACKUP_TS, tenths, bus, file_events, pipeVars, restoreVars, adm, wk,
              gc, rd>>

\* step 1 in worker w: get_next_backup_task
WK_Take(w) ==
  /\ wks.pc[w] = "idle"
  /\ get_next_backup_task(backup_tasks) # 0
  /\ LET k == get_next_backup_task(backup_tasks)
     IN wks' = [wks EXCEPT !.pc[w] = "mark", !.task[w] = k,
                           !.attempts[w] = backup_tasks[k].attempts]
  /\ UNCHANGED <<poolRest, backup_tasks>>

\* step 2 in worker w: mark_backup_task_processing on the worker's copy
WK_Mark(w) ==
  /\ wks.pc[w] = "mark"
  /\ backup_tasks' =
       mark_backup_task_processing(
         [backup_tasks EXCEPT ![wks.task[w]].attempts = wks.attempts[w]], wks.task[w])
  /\ wks' = [wks EXCEPT !.pc[w] = "run", !.marked = @ \cup {<<w, wks.task[w]>>}]
  /\ UNCHANGED poolRest

\* steps 3-6 in worker w, then mark_backup_task_done
WK_Done(w) ==
  /\ wks.pc[w] = "run"
  /\ backup_tasks' = mark_backup_task_done(backup_tasks, wks.task[w])
  /\ wks' = [wks EXCEPT !.pc[w] = "idle", !.task[w] = 0, !.attempts[w] = 0,
                        !.ran = @ \cup {<<w, wks.task[w]>>}]
  /\ UNCHANGED poolRest

\* steps 3 and 7 in worker w: mark_backup_task_failed
WK_Failed(w, error) ==
  /\ wks.pc[w] = "run"
  /\ backup_tasks' = mark_backup_task_failed(backup_tasks, wks.task[w], error)
  /\ wks' = [wks EXCEPT !.pc[w] = "idle", !.task[w] = 0, !.attempts[w] = 0]
  /\ UNCHANGED poolRest

\* --------------------------- from a change on disk to a version (spec 4.5)
\* The watcher admits the events of one file and the worker runs steps 3-6, the
\* statements of _backup_file lines 55-91, on the task it holds.
capRest == <<cas, pc, bf, outcome, scans, restoreVars, gc, rd, cs, mw, lateVars>>

\* the user overwrites the file; watchdog queues the event
CapWrite(c) ==
  /\ user_ops < MaxUserOps
  /\ disk[PathA] # c
  /\ disk' = [disk EXCEPT ![PathA] = c]
  /\ fs_events' = Append(fs_events,
                         Event(IF Exists(disk, PathA) THEN "modified" ELSE "created",
                               PathA, <<>>))
  /\ user_ops' = user_ops + 1
  /\ UNCHANGED <<file_records, file_versions, queueVars, LAST_BACKUP_TS, tenths, capRest>>

\* on_created / on_modified: the admission tests (iv) and (v), then the enqueue
CapAdmit ==
  /\ fs_events # <<>>
  /\ fs_events' = Tail(fs_events)
  /\ LET p == Head(fs_events).src
     IN IF debounce_hit(LAST_BACKUP_TS, norm_path(p), tenths)
        THEN /\ adm' = [NoAdmission EXCEPT !.path = p, !.at = tenths, !.result = "debounced"]
             /\ UNCHANGED <<backup_tasks, LAST_BACKUP_TS>>
        ELSE IF has_pending_backup_task(backup_tasks, p)
        THEN /\ adm' = [NoAdmission EXCEPT !.path = p, !.at = tenths, !.result = "rejected"]
             /\ UNCHANGED <<backup_tasks, LAST_BACKUP_TS>>
        ELSE /\ adm' = [NoAdmission EXCEPT !.path = p, !.at = tenths, !.result = "enqueued"]
             /\ backup_tasks' = enqueue_backup_task(backup_tasks, p, tenths)
             /\ LAST_BACKUP_TS' = Stamp(LAST_BACKUP_TS, norm_path(p), tenths)
  /\ UNCHANGED <<disk, file_records, file_versions, user_ops, wk, tenths, capRest>>

\* worker steps 3-6 on the task it marked processing
CapRun ==
  /\ wk.pc = "run"
  /\ LET p == backup_tasks[wk.task].src_path
         h == calculate_file_hash(disk, p)
         known == get_file_record(file_records, p)
         recs == IF known # 0 THEN file_records ELSE Append(file_records, p)
         rows == VersionRows(recs, file_versions, p)
     IN IF ~Exists(disk, p)
        THEN /\ backup_tasks' = mark_backup_task_failed(backup_tasks, wk.task, "file is gone")
             /\ wk' = [pc |-> "idle", task |-> 0, error |-> "file is gone"]
             /\ UNCHANGED <<file_records, file_versions>>
        ELSE /\ file_records' = recs
             /\ backup_tasks' = mark_backup_task_done(backup_tasks, wk.task)
             /\ wk' = [wk EXCEPT !.pc = "idle", !.task = 0]
             /\ IF rows # {} /\ \E k \in FirstRows(file_versions, rows) :
                                  DedupHit(file_versions[k].file_hash, h)
                THEN UNCHANGED file_versions
                ELSE file_versions' = Append(file_versions,
                       [file_record_id |-> get_file_record(recs, p), original_path |-> p,
                        storage_path |-> StoragePath(ObjectName(h)),
                        version_number |-> Cardinality(rows) + 1, file_hash |-> h])
  /\ UNCHANGED <<disk, fs_events, user_ops, adm, LAST_BACKUP_TS, tenths, capRest>>

\* --------------------- a directory is renamed (crud.py 216-238 and its callers)
DirT == <<SEP, "T">>
DirTi == <<SEP, "T", "i">>
DirN == <<SEP, "N">>

\* the paths records hold before the first call: two files of /T, one of the
\* sibling /Ti whose name extends T, and one of /N
RenPaths ==
  { <<SEP, "T", SEP, "f">>, <<SEP, "T", SEP, "g">>,
    <<SEP, "T", "i", SEP, "f">>, <<SEP, "N", SEP, "f">> }

\* the arguments of the calls: on_moved and the root rename pass the paths of
\* the event, relink_folder passes the request's strings as they were typed
OldDirs == {DirT, Concat(DirT, <<SEP>>), DirTi}
NewDirs == {DirN, Concat(DirN, <<SEP>>), DirT}

\* the tables of at most n rows over RenPaths the unique index allows
RenTables(n) ==
  UNION {{r \in [1..k -> RenPaths] : \A i, j \in 1..k : r[i] = r[j] => i = j} : k \in 0..n}

\* update_directory_records(old_dir, new_dir); rd keeps the call, the table
\* before it and what it returned (no count when the commit raised)
RenameDir(old_dir, new_dir) ==
  /\ rd.calls < MaxRenames
  /\ LET u == update_directory_records(file_records, old_dir, new_dir)
     IN /\ file_records' = u.recs
        /\ rd' = [calls |-> rd.calls + 1, old_dir |-> old_dir, new_dir |-> new_dir,
                  before |-> file_records, count |-> IF u.ok THEN u.count ELSE None,
                  ok |-> u.ok, events |-> file_events]
  /\ UNCHANGED <<moreVars, disk, file_versions, cas, fs_events, pc, bf, outcome, user_ops, scans,
                 restoreVars, queueVars, gc>>

\* --------------------------- the content-addressed store (storage.py 208-437)
\* sizes are counted in blocks of bytes; a chunked file has at least two chunks
CHUNK_SIZE_BYTES == 2
CHUNKED_MIN_SIZE_BYTES == 4
MANIFEST_EXT == ".manifest.json"

Writers == {"w1", "w2"}
SrcPaths == {"s1", "s2"}

\* what the source files hold: two small files and two chunked ones that share
\* their first chunks, the second with a size that is no multiple of the chunk
SmallFiles == {<<"a">>, <<"b">>}
LargeFiles == {<<"a", "a", "b", "b">>, <<"a", "a", "b", "b", "a">>}
FileBytes == SmallFiles \cup LargeFiles

\* hashlib.sha256(...).hexdigest(): no two contents share a digest
sha256(data) == <<"sha256", data>>
NoHash == <<>>

\* uuid.uuid4().hex of the n-th call
uuid4(n) == <<"uuid", n>>

ManifestName(h) == <<h, MANIFEST_EXT>>
TempName(u) == <<u, ".gz.tmp">>
IsFinalName(name) == name[2] \in {".gz", MANIFEST_EXT}

\* a file of the storage root: what was written to it, and whether the writer
\* got to close it (the gzip trailer, the end of the JSON document)
Partial == [data |-> <<>>, closed |-> FALSE]
Whole(data) == [data |-> data, closed |-> TRUE]

\* f_in.read(CHUNK_SIZE_BYTES), the i-th time
ChunkAt(data, i) ==
  LET from == (i - 1) * CHUNK_SIZE_BYTES + 1
      to == IF i * CHUNK_SIZE_BYTES < Len(data) THEN i * CHUNK_SIZE_BYTES ELSE Len(data)
  IN IF from > Len(data) THEN <<>> ELSE SubSeq(data, from, to)

\* a mapping without one of its keys, and with one key set
Without(f, k) == [x \in DOMAIN f \ {k} |-> f[x]]
With(f, k, v) == [x \in DOMAIN f \cup {k} |-> IF x = k THEN v ELSE f[x]]

\* the locals of one save_file_version call; before, at_call, steady and began
\* are history: the storage root and the source's bytes when the call began,
\* whether the source has kept those bytes since, and the number of calls that
\* had returned when this one began
NoSave ==
  [pc |-> "idle", src |-> "", hashed |-> "", known |-> NoHash, use_known |-> FALSE,
   size |-> 0, hash |-> NoHash, temp |-> <<>>, i |-> 0, read |-> <<>>, chunks |-> <<>>,
   at_call |-> <<>>, steady |-> TRUE, before |-> <<>>, faulted |-> FALSE, began |-> 0]

\* no call has returned, no restore has run
NoReturn ==
  [n |-> 0, ok |-> FALSE, storage_path |-> <<>>, file_hash |-> NoHash, bytes |-> <<>>,
   known_ok |-> TRUE, steady |-> TRUE, faulted |-> FALSE, before |-> <<>>, after |-> <<>>,
   began |-> 0, temp |-> <<>>, unknown |-> FALSE]
NoRestore ==
  [ran |-> FALSE, storage_path |-> <<>>, of_last |-> FALSE, ok |-> FALSE, dest |-> <<>>,
   copied |-> 0, root |-> <<>>, chunks |-> <<>>]

NoCas ==
  [src |-> <<>>, root |-> <<>>, chunks |-> <<>>,
   w |-> [w \in Writers |-> NoSave], calls |-> 0, edits |-> 0, faults |-> 0, reads |-> 0,
   dels |-> 0,
   prev |-> NoReturn, last |-> NoReturn, fresh |-> FALSE, rs |-> NoRestore]

notCas == <<pipeVars, restoreVars, queueVars, gc, rd, mw, LAST_BACKUP_TS, tenths, lateVars>>

\* an IO error may be injected while the budget lasts
MayFail(io_ok) == io_ok \/ cs.faults < MaxFaults
Faults(io_ok) == IF io_ok THEN cs.faults ELSE cs.faults + 1

\* the call of writer w returns: meta is [ok, storage_path, file_hash]; root and
\* chunks are the store it leaves
SaveReturns(w, meta, root, chunks, io_ok) ==
  LET l == cs.w[w]
  IN cs' = [cs EXCEPT
       !.root = root, !.chunks = chunks, !.faults = Faults(io_ok),
       !.w[w] = [NoSave EXCEPT !.hashed = l.hashed, !.known = l.known],
       !.prev = cs.last,
       !.last = [n |-> cs.last.n + 1, ok |-> meta.ok, storage_path |-> meta.storage_path,
                 file_hash |-> meta.file_hash, bytes |-> l.at_call,
                 known_ok |-> ~l.use_known \/ l.known = sha256(l.at_call),
                 steady |-> l.steady, faulted |-> l.faulted \/ ~io_ok,
                 before |-> l.before, after |-> root, began |-> l.began, temp |-> l.temp,
                 unknown |-> ~l.use_known /\ l.size < CHUNKED_MIN_SIZE_BYTES],
       !.fresh = meta.ok]

Meta(name, h) == [ok |-> TRUE, storage_path |-> name, file_hash |-> h]
NoMeta == [ok |-> FALSE, storage_path |-> <<>>, file_hash |-> NoHash]

\* the call goes on at pc with its locals changed
SaveGoes(w, l, root, chunks, io_ok) ==
  cs' = [cs EXCEPT !.root = root, !.chunks = chunks, !.faults = Faults(io_ok),
                   !.w[w] = [l EXCEPT !.faulted = l.faulted \/ ~io_ok]]

\* the bytes an edit puts in place of data: of the same kind, small or chunked
Rewritten(data) ==
  IF data \in SmallFiles THEN CHOOSE b \in SmallFiles : b # data
  ELSE CHOOSE b \in LargeFiles : b # data

\* no restore and no deletion has been made: writers and the user still act
Writing == cs.reads = 0 /\ cs.dels = 0

\* the user rewrites a source file
CasEdit(p) ==
  /\ Writing
  /\ cs.edits < MaxEdits
  /\ p \in DOMAIN cs.src
  /\ cs' = [cs EXCEPT !.src = With(cs.src, p, Rewritten(cs.src[p])), !.edits = cs.edits + 1,
                       !.w = [w \in Writers |->
                                IF cs.w[w].pc # "idle" /\ cs.w[w].src = p
                                THEN [cs.w[w] EXCEPT !.steady = FALSE] ELSE cs.w[w]]]
  /\ UNCHANGED notCas

\* the caller hashes the file before it saves it (monitor.py 55-57)
CasHash(w, p) ==
  /\ Writing
  /\ cs.w[w].pc = "idle"
  /\ cs.calls < MaxSaves
  /\ p \in DOMAIN cs.src
  /\ cs.w[w].hashed # p
  /\ cs' = [cs EXCEPT !.w[w].hashed = p, !.w[w].known = sha256(cs.src[p])]
  /\ UNCHANGED notCas

\* save_file_version(src_path, known_hash), lines 386-399
SaveCall(w, p, use_known) ==
  /\ Writing
  /\ cs.w[w].pc = "idle"
  /\ cs.calls < MaxSaves
  /\ use_known => cs.w[w].hashed = p
  /\ LET l == [cs.w[w] EXCEPT !.src = p, !.use_known = use_known, !.before = cs.root,
                              !.began = cs.last.n,
                              !.at_call = IF p \in DOMAIN cs.src THEN cs.src[p] ELSE <<>>,
                              !.temp = TempName(uuid4(cs.calls + 1))]
     IN IF p \notin DOMAIN cs.src
        THEN cs' = [cs EXCEPT !.calls = cs.calls + 1, !.prev = cs.last, !.fresh = FALSE,
                              !.last = [NoReturn EXCEPT !.n = cs.last.n + 1,
                                                        !.before = cs.root, !.after = cs.root]]
        ELSE LET size == Len(cs.src[p])
                 to == IF size >= CHUNKED_MIN_SIZE_BYTES THEN "c_known"
                       ELSE IF use_known THEN "k_exists" ELSE "u_open"
             IN cs' = [cs EXCEPT !.calls = cs.calls + 1, !.fresh = FALSE,
                                 !.w[w] = [l EXCEPT !.pc = to, !.size = size]]
  /\ UNCHANGED notCas

\* _save_with_known_hash, lines 298-310: the object is there, a dedup hit
K_Exists(w) ==
  /\ cs.w[w].pc = "k_exists"
  /\ LET l == cs.w[w]
         name == ObjectName(l.known)
     IN IF name \in DOMAIN cs.root
        THEN SaveReturns(w, Meta(name, l.known), cs.root, cs.chunks, TRUE)
        ELSE SaveGoes(w, [l EXCEPT !.pc = "k_open"], cs.root, cs.chunks, TRUE)
  /\ UNCHANGED notCas

\* _write_compressed, lines 223-224: the source is opened, then gzip.open
\* creates (or truncates) the file under its final name
K_Open(w, io_ok) ==
  /\ cs.w[w].pc = "k_open"
  /\ MayFail(io_ok)
  /\ LET l == cs.w[w]
         name == ObjectName(l.known)
     IN IF io_ok
        THEN SaveGoes(w, [l EXCEPT !.pc = "k_copy"], With(cs.root, name, Partial), cs.chunks, TRUE)
        ELSE SaveGoes(w, [l EXCEPT !.pc = "k_fail"], cs.root, cs.chunks, io_ok)
  /\ UNCHANGED notCas

\* line 225 and the close: the bytes the source holds now are compressed into it
K_Copy(w, io_ok) ==
  /\ cs.w[w].pc = "k_copy"
  /\ MayFail(io_ok)
  /\ LET l == cs.w[w]
         name == ObjectName(l.known)
         data == cs.src[l.src]
     IN IF io_ok
        THEN SaveReturns(w, Meta(name, l.known), With(cs.root, name, Whole(data)), cs.chunks, TRUE)
        ELSE SaveGoes(w, [l EXCEPT !.pc = "k_fail"], cs.root, cs.chunks, FALSE)
  /\ UNCHANGED notCas

\* lines 321-328: the object is removed if it is there, an OSError is passed over
K_Fail(w, io_ok) ==
  /\ cs.w[w].pc = "k_fail"
  /\ MayFail(io_ok)
  /\ LET name == ObjectName(cs.w[w].known)
     IN SaveReturns(w, NoMeta,
                    IF io_ok /\ name \in DOMAIN cs.root THEN Without(cs.root, name) ELSE cs.root,
                    cs.chunks, io_ok \/ name \notin DOMAIN cs.root)
  /\ UNCHANGED notCas

\* _save_with_unknown_hash, lines 332-336: the temporary file is created
U_Open(w, io_ok) ==
  /\ cs.w[w].pc = "u_open"
  /\ MayFail(io_ok)
  /\ LET l == cs.w[w]
     IN IF io_ok
        THEN SaveGoes(w, [l EXCEPT !.pc = "u_copy"], With(cs.root, l.temp, Partial), cs.chunks, TRUE)
        ELSE SaveGoes(w, [l EXCEPT !.pc = "u_fail"], cs.root, cs.chunks, io_ok)
  /\ UNCHANGED notCas

\* _stream_hash_and_compress, lines 232-235: hashed and compressed in one pass
U_Copy(w, io_ok) ==
  /\ cs.w[w].pc = "u_copy"
  /\ MayFail(io_ok)
  /\ LET l == cs.w[w]
         data == cs.src[l.src]
     IN IF io_ok
        THEN SaveGoes(w, [l EXCEPT !.pc = "u_exists", !.hash = sha256(data)],
                      With(cs.root, l.temp, Whole(data)), cs.chunks, TRUE)
        ELSE SaveGoes(w, [l EXCEPT !.pc = "u_fail"], cs.root, cs.chunks, FALSE)
  /\ UNCHANGED notCas

\* lines 337-340: storage_path.exists()
U_Exists(w) ==
  /\ cs.w[w].pc = "u_exists"
  /\ LET l == cs.w[w]
     IN SaveGoes(w, [l EXCEPT !.pc = IF ObjectName(l.hash) \in DOMAIN cs.root
                                     THEN "u_remove" ELSE "u_replace"],
                 cs.root, cs.chunks, TRUE)
  /\ UNCHANGED notCas

\* lines 341-353: a dedup hit removes the temporary file (an OSError is passed
\* over) and returns the object's path
U_Remove(w, io_ok) ==
  /\ cs.w[w].pc = "u_remove"
  /\ MayFail(io_ok)
  /\ LET l == cs.w[w]
     IN SaveReturns(w, Meta(ObjectName(l.hash), l.hash),
                    IF io_ok THEN Without(cs.root, l.temp) ELSE cs.root, cs.chunks, io_ok)
  /\ UNCHANGED notCas

\* an os.rename that refuses a destination that is there
U_Replace_unless_there(w, io_ok) ==
  /\ cs.w[w].pc = "u_replace"
  /\ MayFail(io_ok)
  /\ LET l == cs.w[w]
         name == ObjectName(l.hash)
     IN IF io_ok /\ name \notin DOMAIN cs.root
        THEN SaveReturns(w, Meta(name, l.hash),
                         With(Without(cs.root, l.temp), name, cs.root[l.temp]), cs.chunks, TRUE)
        ELSE SaveGoes(w, [l EXCEPT !.pc = "u_fail"], cs.root, cs.chunks, io_ok)
  /\ UNCHANGED notCas

\* lines 355-362: os.replace moves the temporary file to the final name, over
\* an object another writer has put there since the test
U_Replace(w, io_ok) ==
  /\ cs.w[w].pc = "u_replace"
  /\ MayFail(io_ok)
  /\ LET l == cs.w[w]
         name == ObjectName(l.hash)
     IN IF io_ok
        THEN SaveReturns(w, Meta(name, l.hash),
                         With(Without(cs.root, l.temp), name, cs.root[l.temp]), cs.chunks, TRUE)
        ELSE SaveGoes(w, [l EXCEPT !.pc = "u_fail"], cs.root, cs.chunks, FALSE)
  /\ UNCHANGED notCas

\* lines 363-370: the temporary file is removed if it is there
U_Fail(w, io_ok) ==
  /\ cs.w[w].pc = "u_fail"
  /\ MayFail(io_ok)
  /\ LET l == cs.w[w]
     IN SaveReturns(w, NoMeta,
                    IF io_ok /\ l.temp \in DOMAIN cs.root THEN Without(cs.root, l.temp)
                    ELSE cs.root,
                    cs.chunks, io_ok \/ l.temp \notin DOMAIN cs.root)
  /\ UNCHANGED notCas

\* _save_chunked_file, lines 245-257: a known hash whose manifest is there
C_Known(w) ==
  /\ cs.w[w].pc = "c_known"
  /\ LET l == cs.w[w]
         name == ManifestName(l.known)
     IN IF l.use_known /\ name \in DOMAIN cs.root
        THEN SaveReturns(w, Meta(name, l.known), cs.root, cs.chunks, TRUE)
        ELSE SaveGoes(w, [l EXCEPT !.pc = "c_read", !.i = 1], cs.root, cs.chunks, TRUE)
  /\ UNCHANGED notCas

\* lines 260-266 and 268: the next chunk is read and hashed; a chunk whose file is
\* there is skipped, otherwise open creates its file
C_Read(w, io_ok) ==
  /\ cs.w[w].pc = "c_read"
  /\ MayFail(io_ok)
  /\ LET l == cs.w[w]
         chunk == ChunkAt(cs.src[l.src], l.i)
         entry == [hash |-> sha256(chunk), size |-> Len(chunk)]
     IN IF ~io_ok THEN SaveReturns(w, NoMeta, cs.root, cs.chunks, FALSE)
        ELSE IF chunk = <<>>
        THEN SaveGoes(w, [l EXCEPT !.pc = "c_manifest"], cs.root, cs.chunks, TRUE)
        ELSE IF sha256(chunk) \in DOMAIN cs.chunks
        THEN SaveGoes(w, [l EXCEPT !.read = l.read \o chunk, !.i = l.i + 1,
                                   !.chunks = Append(l.chunks, entry)],
                      cs.root, cs.chunks, TRUE)
        ELSE SaveGoes(w, [l EXCEPT !.pc = "c_write", !.read = l.read \o chunk],
                      cs.root, With(cs.chunks, sha256(chunk), <<>>), TRUE)
  /\ UNCHANGED notCas

\* lines 267-268: the chunk is written to its file
C_Write(w, io_ok) ==
  /\ cs.w[w].pc = "c_write"
  /\ MayFail(io_ok)
  /\ LET l == cs.w[w]
         chunk == ChunkAt(l.read, l.i)
         entry == [hash |-> sha256(chunk), size |-> Len(chunk)]
     IN IF ~io_ok THEN SaveReturns(w, NoMeta, cs.root, cs.chunks, FALSE)
        ELSE SaveGoes(w, [l EXCEPT !.pc = "c_read", !.i = l.i + 1,
                                   !.chunks = Append(l.chunks, entry)],
                      cs.root, With(cs.chunks, sha256(chunk), chunk), TRUE)
  /\ UNCHANGED notCas

\* lines 270-281: the manifest is there, or open creates it under its final name
C_Manifest(w, io_ok) ==
  /\ cs.w[w].pc = "c_manifest"
  /\ MayFail(io_ok)
  /\ LET l == cs.w[w]
         file_hash == sha256(l.read)
         name == ManifestName(file_hash)
     IN IF name \in DOMAIN cs.root
        THEN SaveReturns(w, Meta(name, file_hash), cs.root, cs.chunks, TRUE) /\ io_ok
        ELSE IF ~io_ok THEN SaveReturns(w, NoMeta, cs.root, cs.chunks, FALSE)
        ELSE SaveGoes(w, [l EXCEPT !.pc = "c_dump", !.hash = file_hash],
                      With(cs.root, name, Partial), cs.chunks, TRUE)
  /\ UNCHANGED notCas

\* line 282 and the close: json.dump writes the chunk list
C_Dump(w, io_ok) ==
  /\ cs.w[w].pc = "c_dump"
  /\ MayFail(io_ok)
  /\ LET l == cs.w[w]
         name == ManifestName(l.hash)
     IN IF ~io_ok THEN SaveReturns(w, NoMeta, cs.root, cs.chunks, FALSE)
        ELSE SaveReturns(w, Meta(name, l.hash), With(cs.root, name, Whole(l.chunks)),
                         cs.chunks, TRUE)
  /\ UNCHANGED notCas

\* the objects under a final name that were closed
Closed(root) == {name \in DOMAIN root : IsFinalName(name) /\ root[name].closed}

RECURSIVE CopyChunks(_, _, _, _)
\* restore_file_version, lines 418-423: the chunks of the list from position i
\* on are appended to dest; a chunk that is not there ends the copy
CopyChunks(list, chunk_files, i, dest) ==
  IF i > Len(list) THEN [ok |-> TRUE, dest |-> dest, copied |-> i - 1]
  ELSE IF list[i].hash \notin DOMAIN chunk_files
  THEN [ok |-> FALSE, dest |-> dest, copied |-> i - 1]
  ELSE CopyChunks(list, chunk_files, i + 1, dest \o chunk_files[list[i].hash])

restore_file_version_unchecked(root, chunk_files, storage_path) ==
  IF storage_path \notin DOMAIN root THEN [ok |-> FALSE, dest |-> <<>>, copied |-> 0]
  ELSE IF storage_path[2] = MANIFEST_EXT
  THEN [CopyChunks(root[storage_path].data, chunk_files, 1, <<>>) EXCEPT !.ok = TRUE]
  ELSE [ok |-> root[storage_path].closed, dest |-> root[storage_path].data, copied |-> 0]

\* restore_file_version(storage_path, dest_path) to a fresh destination: whether
\* it returned True, and the bytes at the destination. A file that was not
\* closed does not parse (JSON) or ends early (gzip), and line 435 catches that
restore_file_version(root, chunk_files, storage_path) ==
  IF storage_path \notin DOMAIN root THEN [ok |-> FALSE, dest |-> <<>>, copied |-> 0]
  ELSE IF storage_path[2] = MANIFEST_EXT
  THEN IF ~root[storage_path].closed THEN [ok |-> FALSE, dest |-> <<>>, copied |-> 0]
       ELSE CopyChunks(root[storage_path].data, chunk_files, 1, <<>>)
  ELSE [ok |-> root[storage_path].closed, dest |-> root[storage_path].data, copied |-> 0]

\* the names a restore is asked for, and the chunks that may be deleted
RestoreNames ==
  {ObjectName(sha256(b)) : b \in SmallFiles} \cup {ManifestName(sha256(b)) : b \in LargeFiles}
ChunkNames == {sha256(c) : c \in {<<"a", "a">>, <<"b", "b">>, <<"a">>, <<"b">>}}

\* the path the last save returned is restored, or before any save a path that
\* is not there. rs keeps the call and its result; of_last: the path is the one
\* the last save returned and nothing was deleted since
CasRestore(name) ==
  /\ cs.reads < MaxReads
  /\ \A w \in Writers : cs.w[w].pc = "idle"
  /\ IF cs.last.n = 0 THEN name \notin DOMAIN cs.root
     ELSE cs.last.ok /\ name = cs.last.storage_path
  /\ LET r == restore_file_version(cs.root, cs.chunks, name)
     IN cs' = [cs EXCEPT !.reads = cs.reads + 1,
                 !.rs = [ran |-> TRUE, storage_path |-> name,
                         of_last |-> cs.fresh /\ name = cs.last.storage_path,
                         ok |-> r.ok, dest |-> r.dest, copied |-> r.copied,
                         root |-> cs.root, chunks |-> cs.chunks]]
  /\ UNCHANGED notCas

\* a chunk file the last save's manifest lists is deleted from outside
CasDeleteChunk(ch) ==
  /\ cs.dels < MaxDeletes /\ cs.reads = 0
  /\ \A w \in Writers : cs.w[w].pc = "idle"
  /\ ch \in DOMAIN cs.chunks
  /\ cs.last.ok /\ cs.last.storage_path[2] = MANIFEST_EXT
  /\ cs.last.storage_path \in Closed(cs.root)
  /\ \E i \in DOMAIN cs.root[cs.last.storage_path].data :
       cs.root[cs.last.storage_path].data[i].hash = ch
  /\ cs' = [cs EXCEPT !.chunks = Without(cs.chunks, ch), !.dels = cs.dels + 1, !.fresh = FALSE]
  /\ UNCHANGED notCas

\* ------------------------------------- the watch set (monitor.py 335-415)
\* FileMonitorService keeps two dicts, active_watches (the recursive watch of
\* each watched folder) and root_watches (the non-recursive watch of its
\* parent), beside the watches the watchdog Observer holds.  A watched folder
\* is the tuple of its components; a watch is <<directory, recursive>>, the
\* identity watchdog gives an ObservedWatch.
WatchOrder == << <<"a", "x">>, <<"a", "y">>, <<"b", "z">> >>
WatchRoots == {WatchOrder[i] : i \in 1..Len(WatchOrder)}
\* the name a watched folder is renamed to, and the rows in the order of the query
NewRoot == <<"a", "w">>
RootOrder == Append(WatchOrder, NewRoot)
dirname(path) == SubSeq(path, 1, Len(path) - 1)
WatchDirs == WatchRoots \cup {dirname(p) : p \in WatchRoots}
notWatch == <<pipeVars, restoreVars, queueVars, gc, rd, cs, LAST_BACKUP_TS, tenths, lateVars>>

Keys(watch_map) == {watch_map[i] : i \in 1..Len(watch_map)}
Pop(watch_map, key) == SelectSeq(watch_map, LAMBDA k : k # key)

\* observer.unschedule raises for a watch the observer does not hold; the
\* finally clause drops the key all the same and the error propagates
unschedule_watch(w, watch_map, key) ==
  LET held == IF watch_map = "active_watches"
                THEN key \in Keys(w.active_watches)
                ELSE key \in w.root_watches
      watch == IF watch_map = "active_watches"
                 THEN <<key, TRUE>>
                 ELSE <<dirname(key), FALSE>>
      popped == IF watch_map = "active_watches"
                  THEN [w EXCEPT !.active_watches = Pop(@, key)]
                  ELSE [w EXCEPT !.root_watches = @ \ {key}]
  IN  IF ~held
        THEN w
        ELSE [popped EXCEPT !.unsched = @ + 1,
                            !.observer = @ \ {watch},
                            !.raised = watch \notin w.observer]

stop_watching_path(w, path) ==
  LET a == unschedule_watch(w, "active_watches", path)
  IN  IF a.raised THEN a ELSE unschedule_watch(a, "root_watches", path)

ensure_root_watch(w, watched_path) ==
  IF watched_path \in w.root_watches
    THEN w
    ELSE IF dirname(watched_path) \notin w.dirs
      THEN w
      ELSE [w EXCEPT !.sched = @ + 1,
                     !.observer = @ \cup {<<dirname(watched_path), FALSE>>},
                     !.root_watches = @ \cup {watched_path}]

\* scheduling a folder that does not exist raises FileNotFoundError, which the
\* caller catches: the call was issued and no watch is recorded
ensure_recursive_watch(w, watched_path) ==
  IF watched_path \in Keys(w.active_watches)
    THEN w
    ELSE IF watched_path \notin w.dirs
      THEN [w EXCEPT !.sched = @ + 1]
      ELSE [w EXCEPT !.sched = @ + 1,
                     !.observer = @ \cup {<<watched_path, TRUE>>},
                     !.active_watches = Append(@, watched_path)]

\* step 1 of _do_sync_watches, over the keys the dict held when the loop began
RECURSIVE RemoveStale(_, _)
RemoveStale(w, keys) ==
  IF keys = <<>> \/ w.raised
    THEN w
    ELSE RemoveStale(IF Head(keys) \notin w.db
                       THEN stop_watching_path(w, Head(keys))
                       ELSE w,
                     Tail(keys))

\* step 2, over the active rows
RECURSIVE EnsureWatches(_, _)
EnsureWatches(w, paths) ==
  IF paths = <<>>
    THEN w
    ELSE EnsureWatches(
           ensure_recursive_watch(ensure_root_watch(w, Head(paths)), Head(paths)),
           Tail(paths))

do_sync_watches(w) ==
  LET start == [w EXCEPT !.sched = 0, !.unsched = 0, !.raised = FALSE]
      stale == RemoveStale(start, start.active_watches)
  IN  IF stale.raised
        THEN stale
        ELSE EnsureWatches(stale, SelectSeq(RootOrder, LAMBDA p : p \in w.db))

RunOf(w) ==
  [n |-> w.calls, db |-> w.db, dirs |-> w.dirs,
   active_watches |-> Keys(w.active_watches), root_watches |-> w.root_watches,
   sched |-> w.sched, unsched |-> w.unsched, raised |-> w.raised]

\* the monitor thread takes a "sync" command from its queue
sync_watches ==
  /\ mw.calls < MaxSyncs
  /\ LET done == [do_sync_watches(mw) EXCEPT !.calls = @ + 1]
     IN  mw' = [done EXCEPT !.prev = mw.last, !.last = RunOf(done)]
  /\ UNCHANGED notWatch

\* a row becomes active (POST /files/watched) or inactive (the soft delete)
add_watched_path(p) ==
  /\ mw.dbops < MaxDbOps
  /\ p \notin mw.db
  /\ mw' = [mw EXCEPT !.db = @ \cup {p}, !.dbops = @ + 1]
  /\ UNCHANGED notWatch

delete_watched_path(p) ==
  /\ mw.dbops < MaxDbOps
  /\ p \in mw.db
  /\ mw' = [mw EXCEPT !.db = @ \ {p}, !.dbops = @ + 1]
  /\ UNCHANGED notWatch

\* the user removes or creates a watched folder on disk
FolderRemoved(p) ==
  /\ mw.fsops < MaxFsOps
  /\ p \in mw.dirs
  /\ mw' = [mw EXCEPT !.dirs = @ \ {p}, !.fsops = @ + 1]
  /\ UNCHANGED notWatch

FolderCreated(p) ==
  /\ mw.fsops < MaxFsOps
  /\ p \notin mw.dirs
  /\ dirname(p) \in mw.dirs
  /\ mw' = [mw EXCEPT !.dirs = @ \cup {p}, !.fsops = @ + 1]
  /\ UNCHANGED notWatch

\* ------------------- the watched folder itself moves or goes (monitor.py 168-229)
\* The parent watch of a root calls the RootEventHandler of every root that
\* shares the parent; pending holds the calls watchdog has yet to make, and
\* before keeps the tables as the handler found them (history).
PathOf(k) == <<SEP, k[1], SEP, k[2]>>
FileIn(k) == Concat(PathOf(k), <<SEP, "f">>)
FileEvent(type, src, dest) == [event_type |-> type, src_path |-> src, dest_path |-> dest]
rootRest ==
  <<disk, file_versions, cas, fs_events, pc, bf, outcome, user_ops, scans, restoreVars,
    queueVars, gc, rd, cs, LAST_BACKUP_TS, tenths, bus, wks>>

\* the handlers the parent watch of a folder calls
HandlersOf(w, src) ==
  {r \in w.root_watches : dirname(r) = dirname(src) /\ <<dirname(r), FALSE>> \in w.observer}

\* the user renames a folder inside its parent
DirRenamed(src, dest) ==
  /\ mw.fsops < MaxFsOps
  /\ src \in mw.dirs
  /\ dest \notin mw.dirs
  /\ dirname(dest) = dirname(src)
  /\ mw' = [mw EXCEPT !.dirs = (@ \ {src}) \cup {dest},
                      !.fsops = @ + 1,
                      !.pending = @ \cup {[handler |-> r, type |-> "moved", src |-> src,
                                           dest |-> dest] : r \in HandlersOf(mw, src)}]
  /\ UNCHANGED <<rootRest, file_records, file_events>>

\* the user deletes a folder
DirDeleted(src) ==
  /\ mw.fsops < MaxFsOps
  /\ src \in mw.dirs
  /\ mw' = [mw EXCEPT !.dirs = @ \ {src},
                      !.fsops = @ + 1,
                      !.pending = @ \cup {[handler |-> r, type |-> "deleted", src |-> src,
                                           dest |-> <<>>] : r \in HandlersOf(mw, src)}]
  /\ UNCHANGED <<rootRest, file_records, file_events>>

\* crud.update_watched_path: the active row of old_path gets new_path
update_watched_path(db, old_path, new_path) ==
  IF old_path \in db THEN (db \ {old_path}) \cup {new_path} ELSE db

\* RootEventHandler.on_moved: for the handler's own root the row and the
\* records are rewritten and a "rename" command is queued
on_moved(handler, src, dest) ==
  LET e == [handler |-> handler, type |-> "moved", src |-> src, dest |-> dest]
  IN
  /\ e \in mw.pending
  /\ IF norm_path(PathOf(e.src)) = norm_path(PathOf(e.handler))
     THEN /\ file_records' =
               update_directory_records(file_records, PathOf(e.handler), PathOf(e.dest)).recs
          /\ mw' = [mw EXCEPT !.pending = @ \ {e},
                              !.db = update_watched_path(@, e.handler, e.dest),
                              !.cmd_queue = Append(@, [cmd |-> "rename", old |-> e.handler,
                                                       new |-> e.dest]),
                              !.before = [db |-> mw.db, file_records |-> file_records,
                                          file_events |-> file_events]]
     ELSE /\ mw' = [mw EXCEPT !.pending = @ \ {e}]
          /\ UNCHANGED file_records
  /\ UNCHANGED <<rootRest, file_events>>

\* RootEventHandler.on_deleted: a "delete" command is queued for the root
on_deleted(handler, src) ==
  LET e == [handler |-> handler, type |-> "deleted", src |-> src, dest |-> <<>>]
  IN
  /\ e \in mw.pending
  /\ mw' = IF norm_path(PathOf(e.src)) = norm_path(PathOf(e.handler))
           THEN [mw EXCEPT !.pending = @ \ {e},
                           !.cmd_queue = Append(@, [cmd |-> "delete", old |-> e.handler,
                                                    new |-> <<>>]),
                           !.before = [db |-> mw.db, file_records |-> file_records,
                                       file_events |-> file_events]]
           ELSE [mw EXCEPT !.pending = @ \ {e}]
  /\ UNCHANGED <<rootRest, file_records, file_events>>

\* _dispatch_command for "rename" and "delete": _stop_watching_path(old), then
\* _do_sync_watches; an exception of the first leaves the second out
dispatch_command ==
  /\ mw.cmd_queue # <<>>
  /\ LET c == Head(mw.cmd_queue)
         stopped == stop_watching_path([mw EXCEPT !.raised = FALSE], c.old)
         done == IF stopped.raised THEN stopped ELSE do_sync_watches(stopped)
     IN mw' = [done EXCEPT !.cmd_queue = Tail(mw.cmd_queue)]
  /\ UNCHANGED <<rootRest, file_records, file_events>>

\* ------------------------------- relinking a watched folder (crud.py 241-310)
\* crud.update_directory_events: src_path and dest_path that start with old_dir
update_directory_events(events, old_dir, new_dir) ==
  [i \in DOMAIN events |->
     [events[i] EXCEPT
        !.src_path = IF @ # <<>> /\ StartsWith(@, old_dir)
                     THEN swap_path_prefix(@, old_dir, new_dir) ELSE @,
        !.dest_path = IF @ # <<>> /\ StartsWith(@, old_dir)
                      THEN swap_path_prefix(@, old_dir, new_dir) ELSE @]]

\* the row of a path in watched_paths, active or not, or 0
WatchedRow(rows, path) ==
  IF \E i \in DOMAIN rows : rows[i].path = path
  THEN CHOOSE i \in DOMAIN rows : rows[i].path = path /\ \A j \in DOMAIN rows : rows[j].path = path => i <= j
  ELSE 0

\* crud.relink_watched_path: the row, the records and the events, one commit
\* at the end of update_directory_records and one at the end of the call; an
\* IntegrityError of the first leaves everything as it was
relink_watched_path(old_path, new_path) ==
  /\ rd.calls < MaxRenames
  /\ LET w == WatchedRow(watched_paths, old_path)
         u == update_directory_records(file_records, old_path, new_path)
         rows == IF WatchedRow(watched_paths, new_path) # 0
                 THEN [watched_paths EXCEPT ![w].is_active = FALSE]
                 ELSE [watched_paths EXCEPT ![w].path = new_path, ![w].is_active = TRUE]
         done == w # 0 /\ u.ok
     IN /\ watched_paths' = IF done THEN rows ELSE watched_paths
        /\ file_records' = IF done THEN u.recs ELSE file_records
        /\ file_events' = IF done THEN update_directory_events(file_events, old_path, new_path)
                          ELSE file_events
        /\ rd' = [calls |-> rd.calls + 1, old_dir |-> old_path, new_dir |-> new_path,
                  before |-> file_records, count |-> IF done THEN u.count ELSE None,
                  ok |-> done, events |-> file_events]
  /\ UNCHANGED <<disk, file_versions, cas, fs_events, pc, bf, outcome, user_ops, scans,
                 PENDING_RESTORES, now, rq, restores, registered, queueVars, gc, cs, mw,
                 LAST_BACKUP_TS, tenths, bus, wks>>

\* ------------------- the monitor thread and its queue (monitor.py 246-333)
\* What a dispatched command does to the watch maps is modelled above; here a
\* command is its name and its number in the order of the puts, and calls says
\* whether its reconciliation has a watch to schedule or unschedule.
Commands == {"sync", "rename", "delete"}

is_alive(s, t) == t # 0 /\ s.th[t].pc \in {"new", "loop", "dispatch", "finally"}
Unused(s) == {t \in ThreadIds : s.th[t].pc = "none"}
Service(s) == mw' = [mw EXCEPT !.svc = s] /\ UNCHANGED notWatch

\* start(), lines 279-285, as a function of the service's state
Started(s) ==
  IF is_alive(s, s.monitor_thread)
  THEN s
  ELSE LET t == CHOOSE t \in Unused(s) : \A u \in Unused(s) : t <= u
       IN [s EXCEPT !.running = TRUE, !.monitor_thread = t, !.th[t].pc = "new"]

start ==
  /\ ~is_alive(mw.svc, mw.svc.monitor_thread)
  /\ Unused(mw.svc) # {}
  /\ Service(Started(mw.svc))

\* _enqueue_command, lines 246-250, called by sync_watches, handle_root_rename
\* and handle_root_deletion: the thread is started if there is none alive, then
\* the command is put
enqueue_command(cmd) ==
  LET s == mw.svc
      stopping == s.join # 0 \/ \E i \in DOMAIN s.cmd_queue : s.cmd_queue[i].cmd = "stop"
  IN /\ s.puts < MaxCommands
     /\ is_alive(s, s.monitor_thread) \/ Unused(s) # {}
     /\ LET n == s.puts + s.stops + 1
        IN Service([Started(s) EXCEPT
                      !.cmd_queue = Append(@, [cmd |-> cmd, n |-> n]),
                      !.puts = @ + 1,
                      !.clear = IF stopping THEN @ ELSE @ \cup {n}])

\* stop(), lines 311-316: the flag, the stop command, and the join begins
stop ==
  LET s == mw.svc
  IN /\ s.join = 0
     /\ s.stops < MaxStops
     /\ s.monitor_thread # 0
     /\ LET n == s.puts + s.stops + 1
        IN Service([s EXCEPT !.running = FALSE,
                             !.cmd_queue = Append(@, [cmd |-> "stop", n |-> n]),
                             !.stops = @ + 1,
                             !.join = s.monitor_thread,
                             !.halted[s.monitor_thread] = n])

\* lines 317-319: join(timeout=2.0) returns and the handle is dropped.  The two
\* seconds run out only on a thread that is inside a dispatch or is stopping
\* its Observer; a thread waiting on the queue wakes within 0.5 s
stop_join(timed_out) ==
  LET s == mw.svc
  IN /\ s.join # 0
     /\ IF is_alive(s, s.join)
        THEN timed_out /\ s.th[s.join].pc \in {"dispatch", "finally"}
        ELSE ~timed_out
     /\ Service([s EXCEPT !.monitor_thread = 0, !.join = 0])

\* _monitor_loop, lines 254-256: the thread makes its Observer and starts it
T_Observer(t) ==
  LET s == mw.svc
  IN /\ s.th[t].pc = "new"
     /\ Service([s EXCEPT !.observer = t, !.live = @ \cup {t}, !.th[t].pc = "loop"])

\* lines 258-262: the test of _running, then the next command of the queue
\* (an empty queue is waited on again)
T_Get(t) ==
  LET s == mw.svc
  IN /\ s.th[t].pc = "loop"
     /\ IF ~s.running
        THEN Service([s EXCEPT !.th[t].pc = "finally"])
        ELSE /\ s.cmd_queue # <<>>
             /\ Service([s EXCEPT !.th[t] = [pc |-> "dispatch", cmd |-> Head(s.cmd_queue)],
                                  !.cmd_queue = Tail(@)])

\* lines 264-269 and _dispatch_command, 287-308: stop leaves the loop; any
\* other command reconciles the watches on self.observer, if there is one
T_Dispatch(t, calls) ==
  LET s == mw.svc
      c == s.th[t].cmd
  IN /\ s.th[t].pc = "dispatch"
     /\ IF c.cmd = "stop"
        THEN /\ ~calls
             /\ Service([s EXCEPT !.th[t] = [pc |-> "finally", cmd |-> NoCommand]])
        ELSE Service([s EXCEPT
               !.th[t] = [pc |-> "loop", cmd |-> NoCommand],
               !.handled = Append(@, <<t, c.n>>),
               !.touched = IF calls /\ s.observer # 0 THEN @ \cup {<<t, s.observer>>} ELSE @])

\* lines 270-277: self.observer is stopped and joined, and set to None
T_Finally(t) ==
  LET s == mw.svc
  IN /\ s.th[t].pc = "finally"
     /\ Service([s EXCEPT !.live = @ \ {s.observer}, !.observer = 0, !.th[t].pc = "dead"])

\* ------------------------------------------- the event bus (event_stream.py)
\* _SUBSCRIBERS is a plain set of asyncio queues.  The SSE endpoint subscribes
\* and unsubscribes on the event loop; the snapshot threads publish.  A queue is
\* the number it was given when it was made; an event is its number in publish
\* order.  The capacity 100 is scaled to 2.
DEFAULT_MAXSIZE == 2
Publishers == {"t1", "t2"}
notBus ==
  <<pipeVars, restoreVars, queueVars, gc, rd, cs, mw, LAST_BACKUP_TS, tenths,
    wks, file_events>>

\* subscribe
subscribe ==
  /\ Len(bus.queues) < MaxSubs
  /\ bus' = [bus EXCEPT !.queues = Append(@, <<>>),
                        !.got = Append(@, <<>>),
                        !.SUBSCRIBERS = @ \cup {Len(bus.queues) + 1}]
  /\ UNCHANGED notBus

\* unsubscribe, in the finally clause of the SSE generator
unsubscribe(queue) ==
  /\ queue \in bus.SUBSCRIBERS
  /\ bus' = [bus EXCEPT !.SUBSCRIBERS = @ \ {queue}, !.left = @ \cup {queue}]
  /\ UNCHANGED notBus

\* the SSE generator's await queue.get()
QueueGet(queue) ==
  /\ queue \in DOMAIN bus.queues
  /\ bus.queues[queue] # <<>>
  /\ bus' = [bus EXCEPT !.queues[queue] = Tail(@)]
  /\ UNCHANGED notBus

\* publish, line 19: the iterator over the set is made; it keeps the set's size
publish(t) ==
  /\ bus.pub[t].pc = "idle"
  /\ bus.published < MaxPublishes
  /\ bus' = [bus EXCEPT !.published = @ + 1,
                        !.pub[t] = [NoPublish EXCEPT !.pc = "iter",
                                                     !.event = bus.published + 1,
                                                     !.size = Cardinality(bus.SUBSCRIBERS),
                                                     !.subs = bus.SUBSCRIBERS]]
  /\ UNCHANGED notBus

\* line 19, the next element: the set iterator raises RuntimeError when the set
\* has changed size since the iterator was made, and publish catches QueueFull
\* only
P_Next(t) ==
  LET l == bus.pub[t]
      rest == bus.SUBSCRIBERS \ l.visited
  IN /\ l.pc = "iter"
     /\ \/ /\ Cardinality(bus.SUBSCRIBERS) # l.size
           /\ bus' = [bus EXCEPT !.pub[t] = NoPublish, !.raised = TRUE]
        \/ /\ Cardinality(bus.SUBSCRIBERS) = l.size
           /\ rest = {}
           /\ bus' = [bus EXCEPT !.pub[t] = NoPublish,
                                 !.done = [l EXCEPT !.pc = "done"]]
        \/ /\ Cardinality(bus.SUBSCRIBERS) = l.size
           /\ \E queue \in rest :
                bus' = [bus EXCEPT !.pub[t].pc = "put", !.pub[t].queue = queue]
     /\ UNCHANGED notBus

\* queue.put_nowait, its test of full(): QueueFull is caught and the event is
\* dropped for this queue
P_Full(t) ==
  LET l == bus.pub[t]
  IN /\ l.pc = "put"
     /\ bus' = IF Len(bus.queues[l.queue]) >= DEFAULT_MAXSIZE
               THEN [bus EXCEPT !.pub[t].pc = "iter",
                                !.pub[t].visited = @ \cup {l.queue},
                                !.pub[t].dropped = @ \cup {l.queue}]
               ELSE [bus EXCEPT !.pub[t].pc = "append"]
     /\ UNCHANGED notBus

\* queue.put_nowait, its _put: the queue is not locked between the test and
\* the append, and the publishers are threads
P_Put(t) ==
  LET l == bus.pub[t]
  IN /\ l.pc = "append"
     /\ bus' = [bus EXCEPT !.queues[l.queue] = Append(@, l.event),
                           !.got[l.queue] = Append(@, l.event),
                           !.pub[t].pc = "iter",
                           !.pub[t].visited = @ \cup {l.queue},
                           !.pub[t].delivered = @ \cup {l.queue}]
     /\ UNCHANGED notBus

\* ------------------------------------------------------- the backup pipeline
Init ==
  /\ disk = [p \in Paths |-> NoFile]
  /\ file_records = <<>>
  /\ file_versions = <<>>
  /\ cas = EmptyStore
  /\ fs_events = <<>>
  /\ user_ops = 0
  /\ scans = 0
  /\ pc = [t \in Threads |-> "idle"]
  /\ bf = [t \in Threads |-> NoLocals]
  /\ outcome = [t \in Threads |-> "none"]
  /\ PENDING_RESTORES = <<>>
  /\ now = 0
  /\ watched_paths = <<[path |-> DirD, is_active |-> TRUE], [path |-> DirE, is_active |-> TRUE]>>
  /\ rq = NoRequest
  /\ restores = 0
  /\ registered = <<>>
  /\ backup_tasks = <<>>
  /\ adm = NoAdmission
  /\ wk = NoWork
  /\ gc = NoGC
  /\ rd = NoCall
  /\ cs = NoCas
  /\ mw = NoWatches
  /\ LAST_BACKUP_TS = <<>>
  /\ tenths = 0
  /\ bus = NoBus
  /\ wks = NoWorkers
  /\ file_events = <<>>

Next ==
  \/ \E t \in Threads : BackupStep(t)
  \/ OnCreatedOrModified
  \/ OnMovedFile
  \/ OnMovedDir
  \/ \E p \in Paths : ScanFile(p)
  \/ \E p \in Paths, c \in Contents : UserWrite(p, c)
  \/ \E src \in Paths, dst \in Paths : UserMove(src, dst)
  \/ \E old \in Dirs, new \in Dirs : UserMoveDir(old, new)

Spec == Init /\ [][Next]_vars

\* ------------------------------------------------------------------ claims
LinkedRows(vers, r) == {k \in DOMAIN vers : vers[k].file_record_id = r}

\* C2: for every FileRecord the version numbers of its n linked versions are
\* exactly 1..n, and they increase strictly in the order of insertion
C2_VersionMonotonicity ==
  \A r \in RecIds(file_records) :
    LET rows == LinkedRows(file_versions, r)
    IN /\ {file_versions[k].version_number : k \in rows} = 1..Cardinality(rows)
       /\ \A j \in rows, k \in rows :
            j < k => file_versions[j].version_number < file_versions[k].version_number

\* the newest version of the record at the thread's path has the thread's hash
NewestHasHash(t) ==
  LET r == get_file_record(file_records, bf[t].path)
      rows == LinkedRows(file_versions, r)
  IN /\ r # 0
     /\ rows # {}
     /\ \A k \in FirstRows(file_versions, rows) : file_versions[k].file_hash = bf[t].hash

\* C3: a backup attempt whose hash is that of the newest version of the path's
\* record returns without inserting a FileVersion and without a CAS write
C3_DedupAtIdentityLevel ==
  [][\A t \in Threads :
       (pc[t] = "versions" /\ pc'[t] # "versions" /\ NewestHasHash(t))
         => /\ pc'[t] = "idle"
            /\ outcome'[t] = "dedup"
            /\ file_versions' = file_versions
            /\ cas' = cas]_vars

C3_Witness == \E t \in Threads : outcome[t] = "dedup" /\ Len(file_versions) > 0

\* C7: no two FileRecord rows have the same current_path
C7_IdentityUniqueness ==
  \A i \in RecIds(file_records), j \in RecIds(file_records) :
    i # j => file_records[i] # file_records[j]

C7_Witness == Len(file_records) = 2 /\ outcome["watcher"] = "move_conflict"

\* C8: once a moved(src -> dst) event of a file is handled, the record that was
\* at src is at dst, and list_versions(dst) returns every version linked to it
C8_RenamePreservesHistory ==
  [][(/\ pc["watcher"] = "idle"
      /\ fs_events # <<>>
      /\ Head(fs_events).type = "moved"
      /\ Len(fs_events') < Len(fs_events)
      /\ get_file_record(file_records, Head(fs_events).src) # 0)
       => LET r == get_file_record(file_records, Head(fs_events).src)
          IN /\ get_file_record(file_records', Head(fs_events).dest) = r
             /\ LinkedRows(file_versions', r)
                  \subseteq VersionRows(file_records', file_versions', Head(fs_events).dest)]_vars

\* C37: the file_hash of a version a backup attempt inserts is the hash the
\* attempt computed at its start and compared with the newest version's, and
\* the object its storage_path names is in the store under that hash, also
\* when the file was modified between the hashing and the write
C37_RecordedHashIsComparedHash ==
  [][\A t \in Threads :
       (pc[t] = "insert" /\ pc'[t] = "idle" /\ Len(file_versions') = Len(file_versions) + 1) =>
         LET version == file_versions'[Len(file_versions')]
         IN /\ version.file_hash = bf[t].hash
            /\ version.storage_path = StoragePath(ObjectName(bf[t].hash))
            /\ ObjectName(bf[t].hash) \in DOMAIN cas']_vars

\* ------------------------------------------------- restores and the watcher
\* one file with one version is in the tree; the second root may have been
\* removed from the watch list, and the version's object may be missing from
\* the storage root (the case of storage.py line 407)
InitRestore ==
  /\ disk = [p \in Paths |-> IF p = PathA THEN "c1" ELSE NoFile]
  /\ file_records = <<PathA>>
  /\ file_versions = <<[file_record_id |-> 1, original_path |-> PathA,
                        storage_path |-> StoragePath(ObjectName("h1")), version_number |-> 1,
                        file_hash |-> "h1"]>>
  /\ cas \in {save_file_version(EmptyStore, 0, "h1"), EmptyStore}
  /\ fs_events = <<>>
  /\ user_ops = 0
  /\ scans = 0
  /\ pc = [t \in Threads |-> "idle"]
  /\ bf = [t \in Threads |-> NoLocals]
  /\ outcome = [t \in Threads |-> "none"]
  /\ PENDING_RESTORES = <<>>
  /\ now = 0
  /\ \E b \in BOOLEAN :
       watched_paths = <<[path |-> DirD, is_active |-> TRUE], [path |-> DirE, is_active |-> b]>>
  /\ rq = NoRequest
  /\ restores = 0
  /\ registered = <<>>
  /\ backup_tasks = <<>>
  /\ adm = NoAdmission
  /\ wk = NoWork
  /\ gc = NoGC
  /\ rd = NoCall
  /\ cs = NoCas
  /\ mw = NoWatches
  /\ LAST_BACKUP_TS = <<>>
  /\ tenths = 0
  /\ bus = NoBus
  /\ wks = NoWorkers
  /\ file_events = <<>>

NextRestore ==
  \/ BackupStep("watcher")
  \/ BF_Pop("watcher")
  \/ OnCreatedOrModified
  \/ UserWrite(PathA, "c2")
  \/ \E v \in 1..MaxVersions, dest \in Dests : R_Start(v, dest)
  \/ R_Restore
  \/ Tick

SpecRestore == InitRestore /\ [][NextRestore]_vars

\* C4: a created or modified event whose suppression test runs no later than the
\* expiry that register_restore_start had recorded for its normalised path when
\* the handler looked it up is dropped, and inserts no FileVersion
C4_RestoreSuppression ==
  [][(/\ pc["watcher"] = "test"
      /\ pc'["watcher"] # "test"
      /\ bf["watcher"].seen # None
      /\ now <= bf["watcher"].seen)
       => /\ pc'["watcher"] = "idle"
          /\ outcome'["watcher"] = "suppressed"
          /\ file_versions' = file_versions]_vars

\* the watcher's steps on the suppression map, apart from the removal
SuppressionSteps ==
  LET t == "watcher"
      key == norm_path(bf[t].path)
  IN /\ (pc[t] = "test" /\ pc'[t] # "test" /\ bf[t].expires_at # None
             /\ now > bf[t].expires_at) => pc'[t] = "pop"
     /\ (pc[t] = "pop" /\ pc'[t] # "pop") =>
          /\ key \notin DOMAIN PENDING_RESTORES'
          /\ ~(pc'[t] = "idle" /\ outcome'[t] = "suppressed")
          /\ pc'[t] = "hash" \/ IsTempName(bf[t].path)
     /\ (pc[t] = "test" /\ pc'[t] # "test" /\ bf[t].seen = None) =>
          /\ ~(pc'[t] = "idle" /\ outcome'[t] = "suppressed")
          /\ PENDING_RESTORES' = PENDING_RESTORES

\* C35: an attempt handled after the recorded expiry of its path removes the
\* path's entry and goes on like any other event; an entry is removed only by
\* an attempt for its own normalised path handled after the expiry the entry
\* holds, so an attempt handled no later than the expiry leaves it in place;
\* an attempt for a path with no registration is never suppressed
C35_SuppressionExpiry ==
  [][/\ SuppressionSteps
     /\ \A k \in DOMAIN PENDING_RESTORES :
          k \notin DOMAIN PENDING_RESTORES' =>
            /\ pc["watcher"] = "pop"
            /\ k = norm_path(bf["watcher"].path)
            /\ now > PENDING_RESTORES[k]]_vars

\* the destination a request names lies in the tree of an active watched root
InsideActiveRoot(target) ==
  \E i \in DOMAIN watched_paths :
    /\ watched_paths[i].is_active
    /\ \/ realpath(target) = watched_paths[i].path
       \/ StartsWith(realpath(target), Concat(watched_paths[i].path, <<SEP>>))

\* the destination of the request restore_version(v, dest)
TargetOf(v, dest) == IF dest # <<>> THEN dest ELSE file_versions[v].original_path

\* a request is refused with the given status and changes nothing
Refused(code) ==
  /\ rq'.status = code
  /\ rq'.pc = "idle"
  /\ disk' = disk
  /\ fs_events' = fs_events
  /\ PENDING_RESTORES' = PENDING_RESTORES

\* the checks of a request for an existing version: a relative destination is a
\* 400, one outside every active root a 403, and neither changes anything
ChecksOfRestore ==
  \A v \in DOMAIN file_versions, dest \in Dests :
    R_Start(v, dest) =>
      /\ ~isabs(TargetOf(v, dest)) => Refused(400)
      /\ (isabs(TargetOf(v, dest)) /\ ~InsideActiveRoot(TargetOf(v, dest))) => Refused(403)
      /\ (isabs(TargetOf(v, dest)) /\ InsideActiveRoot(TargetOf(v, dest))) => rq'.pc = "restore"

\* the request succeeded and the destination holds the version's content
Restored ==
  /\ rq'.status = 200
  /\ disk'[realpath(rq.target)] = ContentOf(file_versions[rq.version_id].file_hash)

NextRestoreLink ==
  \/ BackupStep("watcher")
  \/ BF_Pop("watcher")
  \/ OnCreatedOrModified
  \/ UserWrite(PathA, "c2")
  \/ \E v \in 1..MaxVersions, dest \in {PathC, PathL} : R_Start(v, dest)
  \/ R_Restore
  \/ Tick

SpecRestoreLink == InitRestore /\ [][NextRestoreLink]_vars

\* C23: when a restore writes its destination, register_restore_start has
\* already recorded an expiry under the normalised destination path, and that
\* key is the key the admission path computes for the path of the event the
\* write causes
C23_SuppressionPrecedesWrite ==
  [][(rq.pc = "restore" /\ rq'.status = 200) =>
       LET event == fs_events'[Len(fs_events')]
       IN /\ norm_path(rq.target) \in DOMAIN registered
          /\ norm_path(event.src) = norm_path(rq.target)]_vars

\* -------------------------------------------- backups and garbage collection
NextGC ==
  \/ BackupStep("watcher")
  \/ BF_InsertFails("watcher")
  \/ OnCreatedOrModified
  \/ \E c \in Contents : UserWrite(PathA, c)
  \/ G_Read
  \/ G_Start
  \/ \E f \in StoreNames, io_ok \in BOOLEAN : G_Visit(f, io_ok)
  \/ G_Finish
  \/ GC_Tick

SpecGC == Init /\ [][NextGC]_vars

\* what a finished pass owes the entries the storage root had when it began:
\* (a) one whose name is in the active set still exists, (c) one within the
\* grace period still exists, (d) a subdirectory is as it was
PassKeeps ==
  \A f \in DOMAIN gc.before :
    /\ f \in gc.active => f \in DOMAIN cas
    /\ gc.at - gc.before[f].mtime < GC_GRACE_PERIOD_SECONDS => f \in DOMAIN cas
    /\ ~gc.before[f].is_file => (f \in DOMAIN cas /\ cas[f] = gc.before[f])

\* (b) the regular files at least a grace period old and not in the active set
Unreferenced ==
  {f \in DOMAIN gc.before :
     /\ gc.before[f].is_file
     /\ gc.at - gc.before[f].mtime >= GC_GRACE_PERIOD_SECONDS
     /\ f \notin gc.active}

\* C9 as amended: after a pass, (a), (c) and (d) hold, and (b) every regular file
\* older than the grace period and not in the active set has been deleted unless
\* its stat or its unlink failed, in which case it is left and the failure logged
C9_GCLivenessSafetyAmended ==
  gc.pc = "done" =>
    /\ PassKeeps
    /\ \A f \in Unreferenced : f \in gc.deleted \/ f \in gc.failed

C9_Witness ==
  /\ gc.pc = "done"
  /\ gc.deleted # {}
  /\ \E f \in DOMAIN gc.before : f \in gc.active
  /\ \E f \in DOMAIN gc.before :
       gc.before[f].is_file /\ gc.at - gc.before[f].mtime < GC_GRACE_PERIOD_SECONDS

\* C9: after a pass, (a), (c) and (d) hold, and (b) every regular file older
\* than the grace period and not in the active set has been deleted
C9_GCLivenessSafety ==
  gc.pc = "done" =>
    /\ PassKeeps
    /\ \A f \in Unreferenced : f \in gc.deleted

\* C10: the storage_path of every committed FileVersion names an object that is
\* in the storage root
C10_GCKeepsCommittedVersions ==
  \A k \in DOMAIN file_versions : Basename(file_versions[k].storage_path) \in DOMAIN cas

\* ------------------------------------------------------------ the task queue
NextQueue ==
  \/ \E p \in QueuePaths : A_Event(p)
  \/ A_Check
  \/ A_Enqueue
  \/ Q_Tick
  \/ W_Take
  \/ W_Mark
  \/ W_Done
  \/ \E error \in Errors : W_Failed(error)

SpecQueue == Init /\ [][NextQueue]_vars

InitRename ==
  /\ file_records \in RenTables(MaxRenRecords)
  /\ disk = [p \in Paths |-> NoFile]
  /\ file_versions = <<>>
  /\ cas = EmptyStore
  /\ fs_events = <<>>
  /\ user_ops = 0
  /\ scans = 0
  /\ pc = [t \in Threads |-> "idle"]
  /\ bf = [t \in Threads |-> NoLocals]
  /\ outcome = [t \in Threads |-> "none"]
  /\ PENDING_RESTORES = <<>>
  /\ now = 0
  /\ watched_paths = <<[path |-> DirD, is_active |-> TRUE], [path |-> DirE, is_active |-> TRUE]>>
  /\ rq = NoRequest
  /\ restores = 0
  /\ registered = <<>>
  /\ backup_tasks = <<>>
  /\ adm = NoAdmission
  /\ wk = NoWork
  /\ gc = NoGC
  /\ rd = NoCall
  /\ cs = NoCas
  /\ mw = NoWatches
  /\ LAST_BACKUP_TS = <<>>
  /\ tenths = 0
  /\ bus = NoBus
  /\ wks = NoWorkers
  /\ file_events = <<>>

NextRename == \E old_dir \in OldDirs, new_dir \in NewDirs : RenameDir(old_dir, new_dir)

SpecRename == InitRename /\ [][NextRename]_vars

\* path starts with dir on a segment boundary: dir ends with the separator, or
\* the separator follows it in path
OnBoundary(path, dir) ==
  /\ StartsWith(path, dir)
  /\ \/ EndsWith(dir, <<SEP>>)
     \/ Len(path) > Len(dir) /\ path[Len(dir) + 1] = SEP

\* path with the prefix old_dir replaced by new_dir, one separator between
\* new_dir and a suffix that does not begin with one
Moved(path, old_dir, new_dir) ==
  LET suffix == SubSeq(path, Len(old_dir) + 1, Len(path))
  IN IF suffix # <<>> /\ suffix[1] = SEP THEN new_dir \o suffix
     ELSE IF new_dir = <<>> \/ new_dir[Len(new_dir)] = SEP THEN new_dir \o suffix
     ELSE new_dir \o <<SEP>> \o suffix

\* the last call's rewritten paths met a path another record held
Collides(m) ==
  \E i \in m : \E j \in DOMAIN rd.before \ {i} :
    Moved(rd.before[i], rd.old_dir, rd.new_dir) = rd.before[j]

C33_AllOrNone ==
  [][rd'.calls = rd.calls + 1 =>
       LET m == {i \in DOMAIN file_records : OnBoundary(file_records[i], rd'.old_dir)}
       IN /\ ~rd'.ok => file_records' = file_records
          /\ rd'.ok => /\ DOMAIN file_records' = DOMAIN file_records
                       /\ \A i \in m :
                            file_records'[i] = Moved(file_records[i], rd'.old_dir, rd'.new_dir)]_vars

\* a call that failed on its second matching record: the first one had been
\* rewritten in the session when the commit raised
C33_Witness ==
  /\ rd.calls > 0 /\ ~rd.ok /\ file_records = rd.before
  /\ \E i, j \in DOMAIN rd.before :
       /\ i < j
       /\ OnBoundary(rd.before[i], rd.old_dir) /\ OnBoundary(rd.before[j], rd.old_dir)
       /\ Moved(rd.before[i], rd.old_dir, rd.new_dir) \notin {rd.before[k] : k \in DOMAIN rd.before}
       /\ Moved(rd.before[j], rd.old_dir, rd.new_dir) \in {rd.before[k] : k \in DOMAIN rd.before}

\* ---------------------------------------------------- relink and the events
\* the rows the event table may hold: a creation under each folder, and a move
\* from the sibling /Ti into /T
EventRows ==
  {FileEvent("created", path, <<>>) : path \in RenPaths}
    \cup {FileEvent("moved", <<SEP, "T", "i", SEP, "f">>, <<SEP, "T", SEP, "f">>)}

InitRelink ==
  /\ file_records \in RenTables(MaxRenRecords)
  /\ disk = [p \in Paths |-> NoFile]
  /\ file_versions = <<>>
  /\ cas = EmptyStore
  /\ fs_events = <<>>
  /\ user_ops = 0
  /\ scans = 0
  /\ pc = [t \in Threads |-> "idle"]
  /\ bf = [t \in Threads |-> NoLocals]
  /\ outcome = [t \in Threads |-> "none"]
  /\ PENDING_RESTORES = <<>>
  /\ now = 0
  /\ watched_paths = <<[path |-> DirT, is_active |-> TRUE], [path |-> DirTi, is_active |-> TRUE]>>
  /\ rq = NoRequest
  /\ restores = 0
  /\ registered = <<>>
  /\ backup_tasks = <<>>
  /\ adm = NoAdmission
  /\ wk = NoWork
  /\ gc = NoGC
  /\ rd = NoCall
  /\ cs = NoCas
  /\ mw = NoWatches
  /\ LAST_BACKUP_TS = <<>>
  /\ tenths = 0
  /\ bus = NoBus
  /\ wks = NoWorkers
  /\ file_events \in UNION {[1..k -> EventRows] : k \in 0..MaxEventRows}

NextRelink ==
  \E old_path \in {DirT, DirTi}, new_path \in NewDirs : relink_watched_path(old_path, new_path)

SpecRelink == InitRelink /\ [][NextRelink]_vars

\* what the rewrite owes a path: the prefix replaced when the separator
\* follows old in it, the path itself otherwise
Relinked(path, old, new) ==
  IF StartsWith(path, old \o <<SEP>>) THEN Moved(path, old, new) ELSE path

\* C32: a relink that went through rewrites the src_path and dest_path of the
\* FileEvent rows that lie under old on a segment boundary, to new joined with
\* the suffix, and leaves every other path unchanged
C32_EventPrefixRewrite ==
  (rd.calls > 0 /\ rd.ok) =>
    /\ DOMAIN file_events = DOMAIN rd.events
    /\ \A i \in DOMAIN rd.events :
         /\ file_events[i].src_path = Relinked(rd.events[i].src_path, rd.old_dir, rd.new_dir)
         /\ file_events[i].dest_path = Relinked(rd.events[i].dest_path, rd.old_dir, rd.new_dir)
         /\ file_events[i].event_type = rd.events[i].event_type

\* ------------------------------------------------- the content-addressed store
InitCas ==
  /\ cs \in {[NoCas EXCEPT !.src = [p \in SrcPaths |-> b]] : b \in FileBytes}
          \cup {[NoCas EXCEPT !.src = [p \in {"s1"} |-> <<"a">>]]}
  /\ disk = [p \in Paths |-> NoFile]
  /\ file_records = <<>>
  /\ file_versions = <<>>
  /\ cas = EmptyStore
  /\ fs_events = <<>>
  /\ user_ops = 0
  /\ scans = 0
  /\ pc = [t \in Threads |-> "idle"]
  /\ bf = [t \in Threads |-> NoLocals]
  /\ outcome = [t \in Threads |-> "none"]
  /\ PENDING_RESTORES = <<>>
  /\ now = 0
  /\ watched_paths = <<[path |-> DirD, is_active |-> TRUE], [path |-> DirE, is_active |-> TRUE]>>
  /\ rq = NoRequest
  /\ restores = 0
  /\ registered = <<>>
  /\ backup_tasks = <<>>
  /\ adm = NoAdmission
  /\ wk = NoWork
  /\ gc = NoGC
  /\ rd = NoCall
  /\ mw = NoWatches
  /\ LAST_BACKUP_TS = <<>>
  /\ tenths = 0
  /\ bus = NoBus
  /\ wks = NoWorkers
  /\ file_events = <<>>

\* one save_file_version call of writer w moves on
SaveStep(w) ==
  \/ K_Exists(w)
  \/ \E io_ok \in BOOLEAN : K_Open(w, io_ok)
  \/ \E io_ok \in BOOLEAN : K_Copy(w, io_ok)
  \/ \E io_ok \in BOOLEAN : K_Fail(w, io_ok)
  \/ \E io_ok \in BOOLEAN : U_Open(w, io_ok)
  \/ \E io_ok \in BOOLEAN : U_Copy(w, io_ok)
  \/ U_Exists(w)
  \/ \E io_ok \in BOOLEAN : U_Remove(w, io_ok)
  \/ \E io_ok \in BOOLEAN : U_Replace(w, io_ok)
  \/ \E io_ok \in BOOLEAN : U_Fail(w, io_ok)
  \/ C_Known(w)
  \/ \E io_ok \in BOOLEAN : C_Read(w, io_ok)
  \/ \E io_ok \in BOOLEAN : C_Write(w, io_ok)
  \/ \E io_ok \in BOOLEAN : C_Manifest(w, io_ok)
  \/ \E io_ok \in BOOLEAN : C_Dump(w, io_ok)

\* one writer, restores and deletions between its calls
NextCasSeq ==
  \/ \E p \in SrcPaths : CasEdit(p)
  \/ \E p \in SrcPaths : CasHash("w1", p)
  \/ \E p \in SrcPaths, use_known \in BOOLEAN : SaveCall("w1", p, use_known)
  \/ SaveStep("w1")
  \/ \E name \in RestoreNames : CasRestore(name)
  \/ \E ch \in ChunkNames : CasDeleteChunk(ch)

SpecCasSeq == InitCas /\ [][NextCasSeq]_vars

\* two writers: the watcher's handler and the snapshot thread
NextCas ==
  \/ \E p \in SrcPaths : CasEdit(p)
  \/ \E w \in Writers, p \in SrcPaths : CasHash(w, p)
  \/ \E w \in Writers, p \in SrcPaths, use_known \in BOOLEAN : SaveCall(w, p, use_known)
  \/ \E w \in Writers : SaveStep(w)

SpecCas == InitCas /\ [][NextCas]_vars

\* what an object decodes to: the gzip payload, or the manifest's chunks in order
Decoded(root, chunk_files, name) == restore_file_version(root, chunk_files, name).dest

\* C13: every object named {h}.gz or {h}.manifest.json decodes to bytes whose
\* SHA-256 is h
C13_HashIsName ==
  \A name \in Closed(cs.root) : sha256(Decoded(cs.root, cs.chunks, name)) = name[1]

\* C14: no object is under its final name while its content is incomplete
C14_AtomicVisibility ==
  \A name \in DOMAIN cs.root : IsFinalName(name) => cs.root[name].closed

\* C16: a manifest in the storage root lists only chunks that are under chunks/
\* and completely written
C16_ManifestImpliesChunks ==
  \A name \in Closed(cs.root) :
    name[2] = MANIFEST_EXT =>
      \A i \in DOMAIN cs.root[name].data :
        LET ch == cs.root[name].data[i].hash
        IN ch \in DOMAIN cs.chunks /\ sha256(cs.chunks[ch]) = ch

\* the temporary files of a storage root
Temps(root) == {name \in DOMAIN root : ~IsFinalName(name)}
Finals(root) == {name \in DOMAIN root : IsFinalName(name)}

\* C11: when the path a save returned for a file containing b is restored to a
\* fresh destination, the restore returns True and the destination holds b
C11_CasRoundTrip ==
  (cs.rs.ran /\ cs.rs.of_last /\ cs.last.steady) =>
    (cs.rs.ok /\ cs.rs.dest = cs.last.bytes)

\* C12: two successive saves of the same bytes return the same storage_path and
\* file_hash; the store then holds one object for that hash, the second call
\* has not rewritten it and has left no temporary file
C12_CasDedup ==
  (cs.prev.ok /\ cs.last.ok /\ cs.prev.steady /\ cs.last.steady
     /\ cs.prev.bytes = cs.last.bytes) =>
    /\ cs.last.storage_path = cs.prev.storage_path
    /\ cs.last.file_hash = cs.prev.file_hash
    /\ Cardinality({name \in Finals(cs.last.after) : name[1] = cs.last.file_hash}) = 1
    /\ cs.last.storage_path \in DOMAIN cs.last.before
    /\ cs.last.after[cs.last.storage_path] = cs.last.before[cs.last.storage_path]
    /\ Temps(cs.last.after) \subseteq Temps(cs.last.before)

\* C15: a save in which an IO error occurred returns None; the storage root has
\* no new object under a final name and no new temporary file, and the objects
\* it had are unchanged
C15_WriteFailure ==
  (cs.last.n > 0 /\ cs.last.faulted) =>
    /\ ~cs.last.ok
    /\ DOMAIN cs.last.after \subseteq DOMAIN cs.last.before
    /\ \A name \in DOMAIN cs.last.before :
         name \in DOMAIN cs.last.after /\ cs.last.after[name] = cs.last.before[name]

\* two calls ran at the same time through the unknown-hash path on the same
\* bytes, neither met an IO error, and the store held no object of their hash
\* when either began
ConcurrentSameHash ==
  /\ cs.prev.n > 0 /\ cs.last.began < cs.prev.n
  /\ cs.prev.unknown /\ cs.last.unknown
  /\ cs.prev.bytes = cs.last.bytes
  /\ cs.prev.steady /\ cs.last.steady
  /\ ~cs.prev.faulted /\ ~cs.last.faulted
  /\ ObjectName(sha256(cs.last.bytes)) \notin DOMAIN cs.prev.before \cup DOMAIN cs.last.before

\* C36: two writers that store the same bytes at the same time through the
\* unknown-hash path use temporary files of their own and return the same
\* storage_path; the store then holds the object of that hash once, with the
\* complete content, and neither temporary file, whatever the order of their
\* exists tests, renames and removals
C36_ConcurrentSameHash ==
  ConcurrentSameHash =>
    /\ cs.prev.ok /\ cs.last.ok
    /\ cs.prev.temp # cs.last.temp
    /\ cs.last.storage_path = cs.prev.storage_path
    /\ cs.last.storage_path = ObjectName(sha256(cs.last.bytes))
    /\ Cardinality({name \in Finals(cs.last.after) : name[1] = cs.last.file_hash}) = 1
    /\ cs.last.after[cs.last.storage_path] = Whole(cs.last.bytes)
    /\ cs.prev.temp \notin DOMAIN cs.last.after
    /\ cs.last.temp \notin DOMAIN cs.last.after

\* both writers had found no object and both have moved their file into place:
\* the second rename went over the object of the first
C36_Witness ==
  /\ ConcurrentSameHash
  /\ cs.last.temp \in DOMAIN cs.prev.after
  /\ cs.last.storage_path \in DOMAIN cs.prev.after
  /\ cs.w["w1"].pc = "idle" /\ cs.w["w2"].pc = "idle"

\* the second writer found the object of the first and removed its own file
C36_WitnessHit ==
  /\ ConcurrentSameHash
  /\ cs.last.temp \notin DOMAIN cs.prev.after
  /\ cs.last.storage_path \in DOMAIN cs.prev.after

RECURSIVE Joined(_, _)
\* the chunk files of a manifest's list, one after the other
Joined(list, chunk_files) ==
  IF list = <<>> THEN <<>> ELSE chunk_files[Head(list).hash] \o Joined(Tail(list), chunk_files)

\* C17: the restore of a manifest returns False when a chunk it lists is absent,
\* at whatever position; it returns True only when every listed chunk was
\* copied to the destination in the manifest's order; a storage_path that does
\* not exist returns False
C17_MissingChunkFailsRestore ==
  cs.rs.ran =>
    LET path == cs.rs.storage_path
        list == cs.rs.root[path].data
    IN /\ path \notin DOMAIN cs.rs.root => ~cs.rs.ok
       /\ (path \in Closed(cs.rs.root) /\ path[2] = MANIFEST_EXT) =>
            /\ (\E i \in DOMAIN list : list[i].hash \notin DOMAIN cs.rs.chunks) => ~cs.rs.ok
            /\ cs.rs.ok => /\ cs.rs.copied = Len(list)
                           /\ cs.rs.dest = Joined(list, cs.rs.chunks)

C17_Witness ==
  /\ cs.rs.ran /\ ~cs.rs.ok
  /\ cs.rs.storage_path \in Closed(cs.rs.root)
  /\ cs.rs.storage_path[2] = MANIFEST_EXT
  /\ cs.rs.copied >= 1
  /\ cs.rs.copied < Len(cs.rs.root[cs.rs.storage_path].data)

\* ------------------------------------------------------- watch idempotence
InitWatch ==
  /\ cs = NoCas
  /\ disk = [p \in Paths |-> NoFile]
  /\ file_records = <<>>
  /\ file_versions = <<>>
  /\ cas = EmptyStore
  /\ fs_events = <<>>
  /\ user_ops = 0
  /\ scans = 0
  /\ pc = [t \in Threads |-> "idle"]
  /\ bf = [t \in Threads |-> NoLocals]
  /\ outcome = [t \in Threads |-> "none"]
  /\ PENDING_RESTORES = <<>>
  /\ now = 0
  /\ watched_paths = <<[path |-> DirD, is_active |-> TRUE], [path |-> DirE, is_active |-> TRUE]>>
  /\ rq = NoRequest
  /\ restores = 0
  /\ registered = <<>>
  /\ backup_tasks = <<>>
  /\ adm = NoAdmission
  /\ wk = NoWork
  /\ gc = NoGC
  /\ rd = NoCall
  /\ \E db \in SUBSET WatchRoots, gone \in SUBSET WatchRoots :
       /\ Cardinality(gone) <= 1
       /\ mw = [NoWatches EXCEPT !.db = db, !.dirs = WatchDirs \ gone]
  /\ LAST_BACKUP_TS = <<>>
  /\ tenths = 0
  /\ bus = NoBus
  /\ wks = NoWorkers
  /\ file_events = <<>>

NextWatch ==
  \/ sync_watches
  \/ \E p \in WatchRoots : add_watched_path(p)
  \/ \E p \in WatchRoots : delete_watched_path(p)
  \/ \E p \in WatchRoots : FolderRemoved(p)
  \/ \E p \in WatchRoots : FolderCreated(p)

SpecWatch == InitWatch /\ [][NextWatch]_vars

\* C18: when two consecutive runs of sync_watches see the same active
\* WatchedPath rows and the same filesystem, the recursive and the parent
\* watches after the second run are those after the first, and the second run
\* issues no schedule and no unschedule call
C18_WatchIdempotence ==
  (/\ mw.prev.n > 0
   /\ mw.last.db = mw.prev.db
   /\ mw.last.dirs = mw.prev.dirs)
  => /\ mw.last.active_watches = mw.prev.active_watches
     /\ mw.last.root_watches = mw.prev.root_watches
     /\ mw.last.sched = 0
     /\ mw.last.unsched = 0

\* ---------------------------------------------- debounce and task lifecycle
\* the rows an attempt found for its normalised path
PriorRows == {k \in 1..adm.before : norm_path(backup_tasks[k].src_path) = norm_path(adm.path)}

\* the attempt was made less than BACKUP_DEBOUNCE after an admission of the path
InsideWindow ==
  \E k \in PriorRows : adm.at - backup_tasks[k].created_at < BACKUP_DEBOUNCE_SECONDS

Lifecycle == {<<"pending", "processing">>, <<"processing", "done">>, <<"processing", "failed">>}

SomeInFlight(p) ==
  \E k \in DOMAIN backup_tasks :
    backup_tasks[k].src_path = p /\ backup_tasks[k].status \in {"pending", "processing"}

Terminal == {"failed", "done"}

InitRoot ==
  /\ disk = [p \in Paths |-> NoFile]
  /\ file_records = <<FileIn(WatchOrder[1]), FileIn(WatchOrder[2])>>
  /\ file_versions = <<>>
  /\ cas = EmptyStore
  /\ fs_events = <<>>
  /\ user_ops = 0
  /\ scans = 0
  /\ pc = [t \in Threads |-> "idle"]
  /\ bf = [t \in Threads |-> NoLocals]
  /\ outcome = [t \in Threads |-> "none"]
  /\ PENDING_RESTORES = <<>>
  /\ now = 0
  /\ watched_paths = <<[path |-> DirD, is_active |-> TRUE], [path |-> DirE, is_active |-> TRUE]>>
  /\ rq = NoRequest
  /\ restores = 0
  /\ registered = <<>>
  /\ backup_tasks = <<>>
  /\ adm = NoAdmission
  /\ wk = NoWork
  /\ gc = NoGC
  /\ rd = NoCall
  /\ cs = NoCas
  /\ \E db \in {{WatchOrder[1]}, {WatchOrder[1], WatchOrder[2]}} :
       mw = [NoWatches EXCEPT !.db = db, !.dirs = WatchDirs]
  /\ LAST_BACKUP_TS = <<>>
  /\ tenths = 0
  /\ bus = NoBus
  /\ wks = NoWorkers
  /\ file_events =
       <<FileEvent("created", FileIn(WatchOrder[1]), <<>>),
         FileEvent("created", FileIn(WatchOrder[2]), <<>>),
         FileEvent("moved", Concat(PathOf(WatchOrder[2]), <<SEP, "g">>),
                   Concat(PathOf(WatchOrder[1]), <<SEP, "g">>))>>

NextRoot ==
  \/ sync_watches
  \/ \E p \in WatchRoots : delete_watched_path(p)
  \/ \E src \in WatchRoots : DirRenamed(src, NewRoot)
  \/ \E src \in WatchRoots : DirDeleted(src)
  \/ \E handler \in WatchRoots, src \in WatchRoots : on_moved(handler, src, NewRoot)
  \/ \E handler \in WatchRoots, src \in WatchRoots : on_deleted(handler, src)
  \/ dispatch_command

SpecRoot == InitRoot /\ [][NextRoot]_vars

\* a path is the folder or lies in it
InFolder(p, k) == p = PathOf(k) \/ StartsWith(p, Concat(PathOf(k), <<SEP>>))
Rewritten28(p, old, new) == IF InFolder(p, old) THEN swap_path_prefix(p, PathOf(old), PathOf(new)) ELSE p

\* C28: when the "rename" command of a root rename has been handled, (a) the
\* root's active row has the new path, (b) every FileRecord under the root has
\* the new prefix, (c) so has every src_path and dest_path of the FileEvent
\* rows, (d) the recursive and the parent watch exist for the new path and
\* none for the old one; a moved event of another folder changes none of these
C28_RootRename ==
  [][/\ (mw.cmd_queue # <<>> /\ mw'.cmd_queue = Tail(mw.cmd_queue)
           /\ Head(mw.cmd_queue).cmd = "rename") =>
          LET old == Head(mw.cmd_queue).old
              new == Head(mw.cmd_queue).new
          IN /\ old \in mw.before.db => (new \in mw'.db /\ old \notin mw'.db)
             /\ \A i \in DOMAIN mw.before.file_records :
                  file_records'[i] = Rewritten28(mw.before.file_records[i], old, new)
             /\ \A i \in DOMAIN mw.before.file_events :
                  /\ file_events'[i].src_path =
                       Rewritten28(mw.before.file_events[i].src_path, old, new)
                  /\ file_events'[i].dest_path =
                       Rewritten28(mw.before.file_events[i].dest_path, old, new)
             /\ old \in mw.before.db =>
                  /\ new \in Keys(mw'.active_watches) /\ new \in mw'.root_watches
                  /\ old \notin Keys(mw'.active_watches) /\ old \notin mw'.root_watches
     /\ \A e \in mw.pending :
          (e.type = "moved" /\ e.src # e.handler /\ mw'.pending = mw.pending \ {e}) =>
            /\ mw'.db = mw.db
            /\ file_records' = file_records
            /\ file_events' = file_events
            /\ mw'.active_watches = mw.active_watches
            /\ mw'.root_watches = mw.root_watches]_vars

\* the tables a root deletion must leave alone
Tables == <<mw.db, file_records, file_versions, file_events>>

\* C29: when the "delete" command of a root deletion has been handled, the
\* root has no recursive watch and no parent watch; neither the handler of the
\* deleted event nor the command changes a WatchedPath, FileRecord,
\* FileVersion or FileEvent row
C29_RootDeletion ==
  [][/\ (mw.cmd_queue # <<>> /\ mw'.cmd_queue = Tail(mw.cmd_queue)
           /\ Head(mw.cmd_queue).cmd = "delete") =>
          /\ Head(mw.cmd_queue).old \notin Keys(mw'.active_watches)
          /\ Head(mw.cmd_queue).old \notin mw'.root_watches
          /\ Tables' = Tables
     /\ \A e \in mw.pending :
          (e.type = "deleted" /\ mw'.pending = mw.pending \ {e}) => Tables' = Tables]_vars

\* ------------------------------------------------------ the admission filter
NextFilter ==
  \/ BackupStep("watcher")
  \/ OnCreatedOrModified
  \/ \E p \in FilterPaths, c \in Contents : FilterWrite(p, c)

SpecFilter == Init /\ [][NextFilter]_vars

\* C27: no FileRecord and no FileVersion is made for a path that ends in a
\* temporary suffix or has a segment equal to an excluded name
C27_AdmissionFilter ==
  /\ \A r \in RecIds(file_records) :
       ~IsTempName(file_records[r]) /\ ~is_excluded_path(file_records[r])
  /\ \A k \in DOMAIN file_versions :
       /\ ~IsTempName(file_versions[k].original_path)
       /\ ~is_excluded_path(file_versions[k].original_path)

\* ------------------------------------------------- several backup workers
NextPool ==
  \/ \E p \in {PathA, PathB} : A_Event(p)
  \/ A_Check
  \/ A_Enqueue
  \/ \E w \in Workers : WK_Take(w)
  \/ \E w \in Workers : WK_Mark(w)
  \/ \E w \in Workers : WK_Done(w)
  \/ \E w \in Workers, error \in Errors : WK_Failed(w, error)

SpecPool == Init /\ [][NextPool]_vars

\* C26: no BackupTask is marked processing by two workers, and none is backed
\* up by two workers
C26_ExclusiveClaim ==
  /\ \A a, b \in wks.marked : a[2] = b[2] => a[1] = b[1]
  /\ \A a, b \in wks.ran : a[2] = b[2] => a[1] = b[1]

\* ------------------------------------------------------------ the event bus
NextBus ==
  \/ subscribe
  \/ \E queue \in 1..MaxSubs : unsubscribe(queue)
  \/ \E queue \in 1..MaxSubs : QueueGet(queue)
  \/ \E t \in Publishers : publish(t)
  \/ \E t \in Publishers : P_Next(t)
  \/ \E t \in Publishers : P_Full(t)
  \/ \E t \in Publishers : P_Put(t)

SpecBus == Init /\ [][NextBus]_vars

\* C21: publish never raises; a full queue drops the event for its subscriber
\* only, and every other subscriber of the call receives it; no queue holds more
\* than maxsize events; what a subscriber receives is a subsequence of the
\* published events in publish order
C21_DropIsolation ==
  /\ ~bus.raised
  /\ \A queue \in DOMAIN bus.queues : Len(bus.queues[queue]) <= DEFAULT_MAXSIZE
  /\ \A queue \in DOMAIN bus.got :
       \A i, j \in DOMAIN bus.got[queue] : i < j => bus.got[queue][i] < bus.got[queue][j]
  /\ bus.done.pc = "done" =>
       /\ bus.done.delivered \cap bus.done.dropped = {}
       /\ \A queue \in bus.done.subs \ bus.left :
            queue \in bus.done.delivered \cup bus.done.dropped

\* --------------------------------------------- every change is captured
NextCapture ==
  \/ \E c \in Contents : CapWrite(c)
  \/ CapAdmit
  \/ Q_Tick
  \/ W_Take
  \/ W_Mark
  \/ CapRun
  \/ W_Failed("boom")

\* the watcher and the worker keep running and time passes
SpecCapture ==
  /\ Init
  /\ [][NextCapture]_vars
  /\ WF_vars(CapAdmit)
  /\ WF_vars(Q_Tick)
  /\ WF_vars(W_Take)
  /\ WF_vars(W_Mark)
  /\ WF_vars(CapRun)

\* the newest version of the file's identity has the hash of what is on disk
Captured ==
  Exists(disk, PathA) =>
    LET r == get_file_record(file_records, PathA)
        rows == LinkedRows(file_versions, r)
    IN /\ r # 0
       /\ rows # {}
       /\ \A k \in FirstRows(file_versions, rows) :
            file_versions[k].file_hash = calculate_file_hash(disk, PathA)

C24_NoAdjacentDuplicates ==
  \A r \in RecIds(file_records) :
    \A j, k \in LinkedRows(file_versions, r) :
      file_versions[k].version_number = file_versions[j].version_number + 1
        => file_versions[k].file_hash # file_versions[j].file_hash

\* the records create_file_record may rebind to path: a version linked to the
\* record has the hash, the record's file name is the path's, and the record's
\* path is gone from the disk
Rebindable(path, content_hash) ==
  {r \in RecIds(file_records) :
     /\ \E k \in DOMAIN file_versions :
          file_versions[k].file_record_id = r /\ file_versions[k].file_hash = content_hash
     /\ Basename(file_records[r]) = Basename(path)
     /\ ~Exists(disk, file_records[r])}

\* C25: create_file_record returns the record of the path when there is one and
\* changes nothing; for a path without a record it rebinds a record that has a
\* version with the hash, the same file name and a path gone from the disk,
\* creating no record and leaving the versions alone, and in every other case
\* appends exactly one record for the path and changes no other record
C25_IdentityRecovery ==
  [][\A t \in Threads :
       /\ (pc[t] = "lookup" /\ pc'[t] # "lookup"
             /\ get_file_record(file_records, bf[t].path) # 0)
            => /\ bf'[t].rec = get_file_record(file_records, bf[t].path)
               /\ file_records' = file_records
               /\ file_versions' = file_versions
       /\ (pc[t] = "create" /\ pc'[t] # "create"
             /\ get_file_record(file_records, bf[t].path) = 0)
            => IF Rebindable(bf[t].path, bf[t].hash) # {}
               THEN /\ bf'[t].rec \in Rebindable(bf[t].path, bf[t].hash)
                    /\ file_records' = [file_records EXCEPT ![bf'[t].rec] = bf[t].path]
                    /\ file_versions' = file_versions
               ELSE /\ file_records' = Append(file_records, bf[t].path)
                    /\ bf'[t].rec = Len(file_records) + 1
                    /\ file_versions' = file_versions]_vars

\* a scan of the new place of a moved file rebound the file's record before
\* the moved event was handled
C25_Witness ==
  \E t \in Threads :
    /\ pc[t] = "versions"
    /\ fs_events # <<>>
    /\ Head(fs_events).type = "moved"
    /\ Head(fs_events).dest = bf[t].path
    /\ bf[t].rec \in RecIds(file_records)
    /\ file_records[bf[t].rec] = bf[t].path
    /\ \E k \in DOMAIN file_versions :
         /\ file_versions[k].file_record_id = bf[t].rec
         /\ file_versions[k].original_path = Head(fs_events).src

\* C30: after a completed run of sync_watches the keys of active_watches and
\* of root_watches are paths of active WatchedPath rows, and every active root
\* whose folder and parent exist has its recursive and its parent watch
C30_WatchReconciliation ==
  (mw.last.n > 0 /\ ~mw.last.raised) =>
    /\ mw.last.active_watches \subseteq mw.last.db
    /\ mw.last.root_watches \subseteq mw.last.db
    /\ \A p \in mw.last.db :
         (p \in mw.last.dirs /\ dirname(p) \in mw.last.dirs) =>
           p \in mw.last.active_watches /\ p \in mw.last.root_watches

\* ------------------------------------------------------ the monitor service
ThreadStep(t) ==
  \/ T_Observer(t)
  \/ T_Get(t)
  \/ \E calls \in BOOLEAN : T_Dispatch(t, calls)
  \/ T_Finally(t)

NextService ==
  \/ start
  \/ \E cmd \in Commands : enqueue_command(cmd)
  \/ stop
  \/ \E timed_out \in BOOLEAN : stop_join(timed_out)
  \/ \E t \in ThreadIds : ThreadStep(t)

\* a thread that can take a step takes one, and a join returns
SpecService ==
  /\ Init
  /\ [][NextService]_vars
  /\ \A t \in ThreadIds : WF_vars(ThreadStep(t))
  /\ WF_vars(\E timed_out \in BOOLEAN : stop_join(timed_out))

\* C39: at most one monitor thread is alive and at most one Observer exists,
\* whatever the order of start(), stop() and the enqueues; no command is
\* dispatched twice, and a command queued while no stop was under way is
\* eventually dispatched
C39_SingleMonitorThread ==
  /\ [](/\ Cardinality({t \in ThreadIds : is_alive(mw.svc, t)}) <= 1
        /\ Cardinality(mw.svc.live) <= 1
        /\ \A i, j \in DOMAIN mw.svc.handled :
             mw.svc.handled[i][2] = mw.svc.handled[j][2] => i = j)
  /\ \A n \in 1..(MaxCommands + MaxStops) :
       (n \in mw.svc.clear) ~> (\E i \in DOMAIN mw.svc.handled : mw.svc.handled[i][2] = n)

\* C38: the thread stop() was called on eventually ends, with the Observer it
\* made stopped and self.observer None as it leaves; it handles no command that
\* was queued after its stop command
C38_StopTerminates ==
  /\ [](\A t \in ThreadIds :
          /\ mw.svc.halted[t] # 0 =>
               \A i \in DOMAIN mw.svc.handled :
                 mw.svc.handled[i][1] = t => mw.svc.handled[i][2] < mw.svc.halted[t]
          /\ mw.svc.th[t].pc = "dead" => t \notin mw.svc.live)
  /\ \A t \in ThreadIds : (mw.svc.halted[t] # 0) ~> (mw.svc.th[t].pc = "dead")

\* C31: every schedule and unschedule call on an Observer is made by the thread
\* that created it; a request handler or a watchdog callback that calls
\* sync_watches, handle_root_rename or handle_root_deletion puts a command and
\* leaves the Observer and the watch maps as they are
C31_WatchThreadAffinity ==
  /\ [](\A call \in mw.svc.touched : call[1] = call[2])
  /\ [][(mw'.svc.puts # mw.svc.puts) =>
          /\ mw'.svc.observer = mw.svc.observer
          /\ mw'.svc.live = mw.svc.live
          /\ mw'.svc.touched = mw.svc.touched
          /\ mw'.active_watches = mw.active_watches
          /\ mw'.root_watches = mw.root_watches]_vars

====
